---- MODULE Spec2Model ----
(***************************************************************************)
(* Evaluation job orchestration engine of eval-hub: the status aggregator  *)
(* (internal/storage/common), the SQL job store (internal/storage/sql) and *)
(* the cluster dispatcher (internal/runtimes/k8s).                         *)
(*                                                                         *)
(* Strings built by concatenation are sequences of tokens, so that "+" is  *)
(* \o.  A Go pointer that may be nil is a record with an isNil flag; a nil *)
(* slice is the empty sequence (range and append treat them alike).        *)
(* Fields that are only copied and never read by the store (timestamps,    *)
(* artifacts, run ids, log paths, model reference) are left out.           *)
(***************************************************************************)
EXTENDS Integers, Sequences, FiniteSets, Bags, TLC

VARIABLES
    db,        \* the evaluations table: job id -> row (or NoRow)
    procs,     \* the in-flight requests: one record per request slot
    ops,       \* number of requests started so far
    nextId,    \* number of job ids handed out so far
    aggJob,    \* aggregator harness: the job given to GetOverallJobStatus
    aggOut,    \* aggregator harness: what GetOverallJobStatus returned
    budget,    \* number of requests the run admits
    trail,     \* per job id, the overall states a Get of the job showed, in order
    cluster,   \* the ConfigMaps and Jobs the cluster holds
    k8s        \* the calls of the cluster dispatcher in flight

vars == <<db, procs, ops, nextId, aggJob, aggOut, budget, trail, cluster, k8s>>

-----------------------------------------------------------------------------
(* Bounds of the model *)

MaxProcs == 2
MaxOps == 3
MaxJobs == 1
MaxLen == 3
MaxRows == 3
MaxSeqOps == 5
MaxReadOps == 1
MaxPageOps == 2
MaxK8sOps == 2
MaxDispatchOps == 3
MaxIdLen == 2
MaxNames == 2
MaxRunOps == 2

-----------------------------------------------------------------------------
(* pkg/api: states *)

StatePending == "pending"
StateRunning == "running"
StateCompleted == "completed"
StateFailed == "failed"
StateCancelled == "cancelled"

States == {StatePending, StateRunning, StateCompleted, StateFailed, StateCancelled}

OverallStatePending == StatePending
OverallStateRunning == StateRunning
OverallStateCompleted == StateCompleted
OverallStateFailed == StateFailed
OverallStateCancelled == StateCancelled
OverallStatePartiallyFailed == "partially_failed"

OverallStates ==
    {OverallStatePending, OverallStateRunning, OverallStateCompleted,
     OverallStateFailed, OverallStateCancelled, OverallStatePartiallyFailed}

\* GetOverallState: the parsed state and whether the string is a valid one
GetOverallState(s) == [state |-> s, err |-> s \notin OverallStates]

MESSAGE_CODE_EVALUATION_JOB_UPDATED == "evaluation_job_updated"
MESSAGE_CODE_EVALUATION_JOB_CANCELLED == "evaluation_job_cancelled"

\* *api.MessageInfo
MessageInfo(text, code) == [isNil |-> FALSE, Message |-> text, MessageCode |-> code]
NilMessageInfo == [isNil |-> TRUE, Message |-> <<>>, MessageCode |-> ""]

\* api.BenchmarkConfig (the composite key of a configured benchmark)
BenchmarkConfig(id, provider) == [ID |-> id, ProviderID |-> provider]

\* api.BenchmarkStatus
BenchmarkStatus(id, provider, status, errorMessage) ==
    [ID |-> id, ProviderID |-> provider, Status |-> status, ErrorMessage |-> errorMessage]

\* api.BenchmarkResult
BenchmarkResult(id, provider, metrics) ==
    [ID |-> id, ProviderID |-> provider, Metrics |-> metrics]

\* *api.EvaluationJobResults
NilResults == [isNil |-> TRUE, Benchmarks |-> <<>>]

-----------------------------------------------------------------------------
(* internal/storage/common: the status aggregator *)

\* the loop of GetOverallJobStatus: counts per state and the failure lines
RECURSIVE GroupBenchmarks(_, _, _)
GroupBenchmarks(benchmarks, i, acc) ==
    IF i > Len(benchmarks) THEN acc
    ELSE LET benchmark == benchmarks[i]
             counted == [acc.benchmarkStates EXCEPT ![benchmark.Status] = @ + 1]
             line == <<"Benchmark ", benchmark.ID, " failed with message: ">>
                         \o benchmark.ErrorMessage.Message \o <<"\n">>
             message == IF benchmark.Status = StateFailed /\ ~benchmark.ErrorMessage.isNil
                        THEN acc.failureMessage \o line
                        ELSE acc.failureMessage
         IN GroupBenchmarks(benchmarks, i + 1,
                            [benchmarkStates |-> counted, failureMessage |-> message])

\* the switch of GetOverallJobStatus: a first-match cascade
overallSwitch(total, completed, failed, running, failureMessage) ==
    CASE completed = total ->
            <<OverallStateCompleted, <<"Evaluation job is completed">> >>
      [] completed # total /\ failed = total ->
            <<OverallStateFailed, <<"Evaluation job is failed. \n">> \o failureMessage>>
      [] completed # total /\ failed # total /\ completed + failed = total ->
            <<OverallStatePartiallyFailed,
              <<"Some of the benchmarks failed. \n">> \o failureMessage>>
      [] completed # total /\ failed # total /\ completed + failed # total
             /\ running > 0 ->
            <<OverallStateRunning, <<"Evaluation job is running">> >>
      [] OTHER ->
            <<OverallStatePending, <<"Evaluation job is pending">> >>

NoBenchmarks == [benchmarkStates |-> [s \in States |-> 0], failureMessage |-> <<>>]

\* an aggregation that takes the number of recorded statuses for the total
GetOverallJobStatusRecordedTotal(job) ==
    LET grouped == GroupBenchmarks(job.Status.Benchmarks, 1, NoBenchmarks)
        chosen == overallSwitch(Len(job.Status.Benchmarks),
                                grouped.benchmarkStates[StateCompleted],
                                grouped.benchmarkStates[StateFailed],
                                grouped.benchmarkStates[StateRunning],
                                grouped.failureMessage)
    IN [state |-> chosen[1],
        message |-> MessageInfo(chosen[2], MESSAGE_CODE_EVALUATION_JOB_UPDATED)]

\* an order-dependent aggregation: only the first recorded benchmark counts as running
GetOverallJobStatusFirstOnly(job) ==
    LET grouped == GroupBenchmarks(job.Status.Benchmarks, 1, NoBenchmarks)
        running == IF Len(job.Status.Benchmarks) > 0
                      /\ job.Status.Benchmarks[1].Status = StateRunning
                   THEN 1 ELSE 0
        chosen == overallSwitch(Len(job.EvaluationJobConfig.Benchmarks),
                                grouped.benchmarkStates[StateCompleted],
                                grouped.benchmarkStates[StateFailed],
                                running,
                                grouped.failureMessage)
    IN [state |-> chosen[1],
        message |-> MessageInfo(chosen[2], MESSAGE_CODE_EVALUATION_JOB_UPDATED)]

\* an aggregation that reports cancelled when every configured benchmark is cancelled
GetOverallJobStatusCancelAware(job) ==
    LET grouped == GroupBenchmarks(job.Status.Benchmarks, 1, NoBenchmarks)
        total == Len(job.EvaluationJobConfig.Benchmarks)
        chosen == IF total > 0 /\ grouped.benchmarkStates[StateCancelled] = total
                  THEN <<OverallStateCancelled, <<"Evaluation job is cancelled">> >>
                  ELSE overallSwitch(total,
                                     grouped.benchmarkStates[StateCompleted],
                                     grouped.benchmarkStates[StateFailed],
                                     grouped.benchmarkStates[StateRunning],
                                     grouped.failureMessage)
    IN [state |-> chosen[1],
        message |-> MessageInfo(chosen[2], MESSAGE_CODE_EVALUATION_JOB_UPDATED)]

\* GetOverallJobStatus: group the recorded benchmarks by state, then the switch
\* on the counts against the number of configured benchmarks
GetOverallJobStatus(job) ==
    LET grouped == GroupBenchmarks(job.Status.Benchmarks, 1, NoBenchmarks)
        total == Len(job.EvaluationJobConfig.Benchmarks)
        completed == grouped.benchmarkStates[StateCompleted]
        failed == grouped.benchmarkStates[StateFailed]
        running == grouped.benchmarkStates[StateRunning]
        chosen == overallSwitch(total, completed, failed, running, grouped.failureMessage)
    IN [state |-> chosen[1],
        message |-> MessageInfo(chosen[2], MESSAGE_CODE_EVALUATION_JOB_UPDATED)]

\* index of the first element of `list` with the composite key, 0 if none
FirstIndex(list, id, provider) ==
    LET hits == {i \in DOMAIN list : list[i].ID = id /\ list[i].ProviderID = provider}
    IN IF hits = {} THEN 0 ELSE CHOOSE i \in hits : \A j \in hits : i <= j

\* a validation that compares the benchmark id alone and forgets the provider id
ValidateBenchmarkExistsIdOnly(job, runStatus) ==
    IF \E i \in DOMAIN job.EvaluationJobConfig.Benchmarks :
           job.EvaluationJobConfig.Benchmarks[i].ID = runStatus.BenchmarkStatusEvent.ID
    THEN ""
    ELSE "ResourceNotFound"

\* ValidateBenchmarkExists: "" is the nil error
ValidateBenchmarkExists(job, runStatus) ==
    IF FirstIndex(job.EvaluationJobConfig.Benchmarks,
                  runStatus.BenchmarkStatusEvent.ID,
                  runStatus.BenchmarkStatusEvent.ProviderID) # 0
    THEN ""
    ELSE "ResourceNotFound"

\* a result update that leaves out the duplicate check and appends blindly
UpdateBenchmarkResultsNoCheck(job, runStatus, result) ==
    [job |-> [job EXCEPT !.Results =
                 [isNil |-> FALSE, Benchmarks |-> Append(job.Results.Benchmarks, result)]],
     err |-> ""]

\* UpdateBenchmarkResults: the job as the call leaves it, and the error
UpdateBenchmarkResults(job, runStatus, result) ==
    LET results == [isNil |-> FALSE, Benchmarks |-> job.Results.Benchmarks]
        initialised == [job EXCEPT !.Results = results]
    IN IF FirstIndex(results.Benchmarks,
                     runStatus.BenchmarkStatusEvent.ID,
                     runStatus.BenchmarkStatusEvent.ProviderID) # 0
       THEN [job |-> initialised, err |-> "InternalServerError"]
       ELSE [job |-> [initialised EXCEPT !.Results.Benchmarks = Append(@, result)],
             err |-> ""]

\* *api.EvaluationJobStatus
NilStatus == [isNil |-> TRUE, State |-> "", Message |-> NilMessageInfo, Benchmarks |-> <<>>]

\* a status update that always appends, never replacing the entry of the key
UpdateBenchmarkStatusAppendOnly(job, runStatus, benchmarkStatus) ==
    [job EXCEPT !.Status.Benchmarks = Append(@, benchmarkStatus)]

\* UpdateBenchmarkStatus: upsert by composite key
UpdateBenchmarkStatus(job, runStatus, benchmarkStatus) ==
    LET status == IF job.Status.isNil
                  THEN [NilStatus EXCEPT !.isNil = FALSE, !.State = OverallStatePending]
                  ELSE job.Status
        index == FirstIndex(status.Benchmarks,
                            runStatus.BenchmarkStatusEvent.ID,
                            runStatus.BenchmarkStatusEvent.ProviderID)
    IN IF index # 0
       THEN [job EXCEPT !.Status = [status EXCEPT !.Benchmarks[index] = benchmarkStatus]]
       ELSE [job EXCEPT !.Status = [status EXCEPT !.Benchmarks = Append(@, benchmarkStatus)]]

-----------------------------------------------------------------------------
(* internal/storage/sql: rows, the entity blob and reading a job *)

JobIds == 1..MaxJobs
Procs == 1..MaxProcs

\* the ids a row of the evaluations table may have; requests address JobIds
RowIds == 1..(IF MaxRows > MaxJobs THEN MaxRows ELSE MaxJobs)

NoRow == [exists |-> FALSE]

\* api.ModelRef
ModelRef(url, name) == [URL |-> url, Name |-> name]

\* *api.ExperimentConfig
ExperimentConfig(name, tags) == [isNil |-> FALSE, Name |-> name, Tags |-> tags]
NilExperiment == [isNil |-> TRUE, Name |-> "", Tags |-> <<>>]

\* api.EvaluationJobConfig
EvaluationJobConfig(model, benchmarks, experiment) ==
    [isNil |-> FALSE, Model |-> model, Benchmarks |-> benchmarks,
     Experiment |-> experiment]

\* *api.EvaluationJobConfig
NilConfig ==
    [isNil |-> TRUE, Model |-> ModelRef("", ""), Benchmarks |-> <<>>,
     Experiment |-> NilExperiment]

EmptyObject == [k \in {} |-> ""]

\* json.Marshal of EvaluationJobEntity: a nil pointer or an empty slice tagged
\* omitempty leaves no key in the document
MarshalEntity(entity) ==
    LET status == [state |-> entity.Status.State, message |-> entity.Status.Message]
                      @@ (IF entity.Status.Benchmarks = <<>> THEN EmptyObject
                          ELSE [benchmarks |-> entity.Status.Benchmarks])
        results == IF entity.Results.Benchmarks = <<>> THEN EmptyObject
                   ELSE [benchmarks |-> entity.Results.Benchmarks]
        experiment == (IF entity.Config.Experiment.Name = "" THEN EmptyObject
                       ELSE [name |-> entity.Config.Experiment.Name])
                      @@ (IF entity.Config.Experiment.Tags = <<>> THEN EmptyObject
                          ELSE [tags |-> entity.Config.Experiment.Tags])
        config == [model |-> [url |-> entity.Config.Model.URL,
                              name |-> entity.Config.Model.Name],
                   benchmarks |-> entity.Config.Benchmarks]
                      @@ (IF entity.Config.Experiment.isNil THEN EmptyObject
                          ELSE [experiment |-> experiment])
    IN (IF entity.Config.isNil THEN EmptyObject ELSE [config |-> config])
       @@ (IF entity.Status.isNil THEN EmptyObject ELSE [status |-> status])
       @@ (IF entity.Results.isNil THEN EmptyObject ELSE [results |-> results])

\* json.Unmarshal into EvaluationJobEntity: a missing key leaves the zero value
UnmarshalEntity(json) ==
    LET status == json.status
        results == json.results
        config == json.config
        experiment ==
            IF "experiment" \in DOMAIN config
            THEN ExperimentConfig(
                     IF "name" \in DOMAIN config.experiment
                     THEN config.experiment.name ELSE "",
                     IF "tags" \in DOMAIN config.experiment
                     THEN config.experiment.tags ELSE <<>>)
            ELSE NilExperiment
    IN [Config |-> IF "config" \in DOMAIN json
                   THEN EvaluationJobConfig(ModelRef(config.model.url, config.model.name),
                                            config.benchmarks, experiment)
                   ELSE NilConfig,
        Status |-> IF "status" \in DOMAIN json
                   THEN [isNil |-> FALSE, State |-> status.state, Message |-> status.message,
                         Benchmarks |-> IF "benchmarks" \in DOMAIN status
                                        THEN status.benchmarks ELSE <<>>]
                   ELSE NilStatus,
        Results |-> IF "results" \in DOMAIN json
                    THEN [isNil |-> FALSE,
                          Benchmarks |-> IF "benchmarks" \in DOMAIN results
                                         THEN results.benchmarks ELSE <<>>]
                    ELSE NilResults]

NoJob == [isNil |-> TRUE]

\* an entity column whose text is no JSON document of the entity's shape
MalformedJSON == [malformed |-> TRUE]

\* json.Unmarshal returns an error
JSONUnmarshalFails(entityJSON) == "malformed" \in DOMAIN entityJSON

\* a construction that keeps the state of the blob whatever the status column holds
constructEvaluationResourceBlobState(statusStr, message, dbID, evaluationEntity) ==
    IF evaluationEntity.Config.isNil
    THEN [job |-> NoJob, err |-> "InternalServerError"]
    ELSE LET entityStatus == IF evaluationEntity.Status.isNil
                             THEN [NilStatus EXCEPT !.isNil = FALSE]
                             ELSE evaluationEntity.Status
             resourceMessage == IF message.isNil THEN entityStatus.Message ELSE message
         IN [job |-> [isNil |-> FALSE,
                      Resource |-> [ID |-> dbID, Message |-> resourceMessage],
                      Status |-> entityStatus,
                      EvaluationJobConfig |-> evaluationEntity.Config,
                      Results |-> evaluationEntity.Results],
             err |-> ""]

\* constructEvaluationResource: the status column, when it is a valid state,
\* overrides the state embedded in the blob
constructEvaluationResource(statusStr, message, dbID, evaluationEntity) ==
    IF evaluationEntity.Config.isNil
    THEN [job |-> NoJob, err |-> "InternalServerError"]
    ELSE LET entityStatus == IF evaluationEntity.Status.isNil
                             THEN [NilStatus EXCEPT !.isNil = FALSE]
                             ELSE evaluationEntity.Status
             resourceMessage == IF message.isNil THEN entityStatus.Message ELSE message
             overAllState == IF statusStr # "" /\ ~GetOverallState(statusStr).err
                             THEN GetOverallState(statusStr).state
                             ELSE entityStatus.State
         IN [job |-> [isNil |-> FALSE,
                      Resource |-> [ID |-> dbID, Message |-> resourceMessage],
                      Status |-> [entityStatus EXCEPT !.State = overAllState],
                      EvaluationJobConfig |-> evaluationEntity.Config,
                      Results |-> evaluationEntity.Results],
             err |-> ""]

\* a SELECT by id, inside or outside a transaction, returns the row as last
\* committed: transactions take no row lock when they read
queryRow(table, id) == table[id]

\* the INSERT of CreateEvaluationJob: (id, tenant_id, status, experiment_id, entity)
execInsert(table, id, status, entity) ==
    [table EXCEPT ![id] = [exists |-> TRUE, id |-> id, status |-> status, entity |-> entity]]

\* the UPDATE of the status column and the blob by id; no row, no change, no error
execUpdate(table, id, status, entity) ==
    IF table[id].exists
    THEN [table EXCEPT ![id] = [@ EXCEPT !.status = status, !.entity = entity]]
    ELSE table

\* the DELETE by id; no row, no change, no error
execDelete(table, id) == [table EXCEPT ![id] = NoRow]

\* getEvaluationJobTransactional on the row the SELECT returned
getEvaluationJobTransactional(row, id) ==
    IF ~row.exists
    THEN [job |-> NoJob, err |-> "ResourceNotFound"]
    ELSE IF JSONUnmarshalFails(row.entity)
    THEN [job |-> NoJob, err |-> "JSONUnmarshalFailed"]
    ELSE constructEvaluationResource(row.status, NilMessageInfo, row.id,
                                     UnmarshalEntity(row.entity))

\* an update that merges the stored benchmark entries into the blob it writes
updateEvaluationJobTxnMerging(table, id, status, evaluationJob) ==
    IF ~table[id].exists THEN table
    ELSE LET stored == UnmarshalEntity(table[id].entity)
             keptStatus == SelectSeq(stored.Status.Benchmarks,
                               LAMBDA b : FirstIndex(evaluationJob.Status.Benchmarks,
                                                     b.ID, b.ProviderID) = 0)
             keptResults == SelectSeq(stored.Results.Benchmarks,
                               LAMBDA b : FirstIndex(evaluationJob.Results.Benchmarks,
                                                     b.ID, b.ProviderID) = 0)
             merged == [evaluationJob EXCEPT
                           !.Status.Benchmarks = keptStatus \o @,
                           !.Results.Benchmarks = keptResults \o @]
         IN execUpdate(table, id, status, MarshalEntity(merged))

\* an update that leaves the status column of a cancelled row as it is
updateEvaluationJobTxnKeepCancelled(table, id, status, evaluationJob) ==
    execUpdate(table, id,
               IF table[id].exists /\ table[id].status = OverallStateCancelled
               THEN OverallStateCancelled ELSE status,
               MarshalEntity(evaluationJob))

\* updateEvaluationJobTxn: marshal the entity and overwrite column and blob
updateEvaluationJobTxn(table, id, status, evaluationJob) ==
    execUpdate(table, id, status, MarshalEntity(evaluationJob))

\* the EvaluationJobEntity of an in-memory job
EvaluationJobEntity(job) ==
    [Config |-> job.EvaluationJobConfig, Status |-> job.Status, Results |-> job.Results]

-----------------------------------------------------------------------------
(* Requests and their inputs *)

BenchmarkIds == {"arc_easy", "mmlu"}
ProviderIds == {"lm_evaluation_harness", "lighteval"}

\* the configurations a job is created with
Configs ==
    {EvaluationJobConfig(ModelRef("http://test.com", "test"),
                         <<BenchmarkConfig("arc_easy", "lm_evaluation_harness")>>,
                         NilExperiment),
     EvaluationJobConfig(ModelRef("http://test.com", "test"),
                         <<BenchmarkConfig("arc_easy", "lm_evaluation_harness"),
                           BenchmarkConfig("mmlu", "lm_evaluation_harness")>>,
                         ExperimentConfig("", <<[Key |-> "environment",
                                                 Value |-> "test"]>>))}

ErrorMessages == {NilMessageInfo, MessageInfo(<<"out of memory">>, "benchmark_failed")}

\* api.StatusEvent
StatusEvent(id, provider, status, errorMessage, metrics) ==
    [BenchmarkStatusEvent |->
        [ID |-> id, ProviderID |-> provider, Status |-> status,
         ErrorMessage |-> errorMessage, Metrics |-> metrics]]

NoEvent == [isNil |-> TRUE]

\* what an event of each benchmark state carries as metrics
MetricsOf(status) == IF status = StateCompleted THEN "acc=0.9" ELSE ""

\* the status events a callback may deliver: every state for the benchmarks of
\* the first provider, and two events of a provider no job is configured with
StatusEvents ==
    {StatusEvent(b, "lm_evaluation_harness", st, NilMessageInfo, MetricsOf(st)) :
        b \in BenchmarkIds, st \in States}
    \cup {StatusEvent(b, "lm_evaluation_harness", StateFailed, e, MetricsOf(StateFailed)) :
        b \in BenchmarkIds, e \in ErrorMessages}
    \cup {StatusEvent("arc_easy", "lighteval", st, NilMessageInfo, MetricsOf(st)) :
        st \in {StateRunning, StateCompleted}}

\* the message a status override carries
StatusMessage(state) ==
    IF state = OverallStateCancelled
    THEN MessageInfo(<<"Evaluation job cancelled">>, MESSAGE_CODE_EVALUATION_JOB_CANCELLED)
    ELSE MessageInfo(<<"Evaluation job status set">>, MESSAGE_CODE_EVALUATION_JOB_UPDATED)

\* the resource the API layer hands to CreateEvaluationJob: state pending,
\* no benchmark status, no results
NewEvaluationJobResource(id, config) ==
    [isNil |-> FALSE,
     Resource |-> [ID |-> id, Message |-> NilMessageInfo],
     Status |-> [isNil |-> FALSE, State |-> OverallStatePending,
                 Message |-> MessageInfo(<<"Evaluation job created">>,
                                         "evaluation_job_created"),
                 Benchmarks |-> <<>>],
     EvaluationJobConfig |-> config,
     Results |-> NilResults]

\* the arguments and the QueryResults of a GetEvaluationJobs call
NoList ==
    [limit |-> 0, offset |-> 0, statusFilter |-> "", totalCount |-> 0,
     items |-> <<>>, errors |-> <<>>]

IdleProc ==
    [pc |-> "idle", op |-> "none", id |-> 0, runStatus |-> NoEvent, state |-> "",
     message |-> NilMessageInfo, job |-> NoJob, snapshot |-> NoRow, seen |-> "",
     result |-> "", wrote |-> NoRow, list |-> NoList]

\* a request slot is free before its first request and after each one; a new
\* request takes the first free slot
Free(p) ==
    /\ procs[p].pc \in {"idle", "done"}
    /\ \A q \in Procs : q < p => procs[q].pc \notin {"idle", "done"}
    /\ ops < budget

\* the request of slot p ends with `result`
Done(proc, result) == [proc EXCEPT !.pc = "done", !.result = result]

\* the overall state a Get of the row shows, "deleted" for no row
ShownState(row) ==
    IF row.exists THEN getEvaluationJobTransactional(row, row.id).job.Status.State
    ELSE "deleted"

\* the trail after a step from `table` to `written`: a state is added to the
\* trail of a job whenever a step changes what a Get of the job shows
Track(table, written, before) ==
    [id \in RowIds |->
        IF table[id] # written[id] /\ (table[id].exists \/ written[id].exists)
           /\ (table[id].exists /\ written[id].exists
                   => ShownState(table[id]) # ShownState(written[id]))
        THEN Append(before[id], ShownState(written[id]))
        ELSE before[id]]

-----------------------------------------------------------------------------
(* internal/storage/sql: the job store operations *)

\* an entity built without the experiment of the configuration
createEvaluationJobEntityNoExperiment(evaluation) ==
    MarshalEntity(EvaluationJobEntity(
        [evaluation EXCEPT !.EvaluationJobConfig.Experiment = NilExperiment]))

\* createEvaluationJobEntity
createEvaluationJobEntity(evaluation) == MarshalEntity(EvaluationJobEntity(evaluation))

\* a create that inserts the row with the status column running
CreateEvaluationJobRunning(p) ==
    /\ Free(p)
    /\ nextId < MaxJobs
    /\ \E config \in Configs, fail \in BOOLEAN :
          LET jobID == nextId + 1
              evaluation == NewEvaluationJobResource(jobID, config)
              table == execInsert(db, jobID, StateRunning,
                                  createEvaluationJobEntity(evaluation))
              proc == [IdleProc EXCEPT !.op = "create", !.id = jobID, !.job = evaluation]
          IN IF fail
             THEN /\ db' = db
                  /\ procs' = [procs EXCEPT ![p] = Done(proc, "DatabaseOperationFailed")]
             ELSE /\ db' = table
                  /\ procs' = [procs EXCEPT
                                  ![p] = Done([proc EXCEPT !.wrote = table[jobID]], "ok")]
    /\ ops' = ops + 1
    /\ nextId' = nextId + 1
    /\ UNCHANGED <<aggJob, aggOut, budget, cluster, k8s>>
    /\ trail' = Track(db, db', trail)

\* CreateEvaluationJob: one INSERT in one transaction
CreateEvaluationJob(p) ==
    /\ Free(p)
    /\ nextId < MaxJobs
    /\ \E config \in Configs, fail \in BOOLEAN :
          LET jobID == nextId + 1
              evaluation == NewEvaluationJobResource(jobID, config)
              table == execInsert(db, jobID, StatePending,
                                  createEvaluationJobEntity(evaluation))
              proc == [IdleProc EXCEPT !.op = "create", !.id = jobID, !.job = evaluation]
          IN IF fail
             THEN /\ db' = db
                  /\ procs' = [procs EXCEPT ![p] = Done(proc, "DatabaseOperationFailed")]
             ELSE /\ db' = table
                  /\ procs' = [procs EXCEPT
                                  ![p] = Done([proc EXCEPT !.wrote = table[jobID]], "ok")]
    /\ ops' = ops + 1
    /\ nextId' = nextId + 1
    /\ UNCHANGED <<aggJob, aggOut, budget, cluster, k8s>>
    /\ trail' = Track(db, db', trail)

\* GetEvaluationJob: getEvaluationJobTransactional outside any transaction
GetEvaluationJob(p) ==
    /\ Free(p)
    /\ \E id \in JobIds, fail \in BOOLEAN :
          LET proc == [IdleProc EXCEPT !.op = "get", !.id = id]
              got == getEvaluationJobTransactional(queryRow(db, id), id)
          IN procs' = [procs EXCEPT ![p] =
                 IF fail THEN Done(proc, "DatabaseOperationFailed")
                 ELSE IF got.err # "" THEN Done(proc, got.err)
                 ELSE Done([proc EXCEPT !.job = got.job, !.snapshot = db[id],
                                        !.seen = got.job.Status.State], "ok")]
    /\ ops' = ops + 1
    /\ UNCHANGED <<db, nextId, aggJob, aggOut, budget, cluster, k8s>>
    /\ trail' = Track(db, db', trail)

\* a merge that recomputes the overall state before it records the event
UpdateEvaluationJobMergeStale(job, runStatus) ==
    LET event == runStatus.BenchmarkStatusEvent
        benchmark == BenchmarkStatus(event.ID, event.ProviderID, event.Status,
                                     event.ErrorMessage)
        overall == GetOverallJobStatus(job)
        withStatus == UpdateBenchmarkStatus(job, runStatus, benchmark)
        terminal == event.Status \in {StateCompleted, StateFailed, StateCancelled}
        result == BenchmarkResult(event.ID, event.ProviderID, event.Metrics)
        withResults == IF terminal THEN UpdateBenchmarkResults(withStatus, runStatus, result)
                       ELSE [job |-> withStatus, err |-> ""]
    IN IF ValidateBenchmarkExists(job, runStatus) # ""
       THEN [job |-> job, err |-> ValidateBenchmarkExists(job, runStatus)]
       ELSE IF withResults.err # ""
       THEN withResults
       ELSE [job |-> [withResults.job EXCEPT !.Status.State = overall.state,
                                             !.Status.Message = overall.message],
             err |-> ""]

\* UpdateEvaluationJob, after the job is loaded and before it is persisted:
\* validate, upsert the benchmark status, record a terminal result, recompute
UpdateEvaluationJobMerge(job, runStatus) ==
    LET event == runStatus.BenchmarkStatusEvent
        benchmark == BenchmarkStatus(event.ID, event.ProviderID, event.Status,
                                     event.ErrorMessage)
        withStatus == UpdateBenchmarkStatus(job, runStatus, benchmark)
        terminal == event.Status \in {StateCompleted, StateFailed, StateCancelled}
        result == BenchmarkResult(event.ID, event.ProviderID, event.Metrics)
        withResults == IF terminal THEN UpdateBenchmarkResults(withStatus, runStatus, result)
                       ELSE [job |-> withStatus, err |-> ""]
        overall == GetOverallJobStatus(withResults.job)
    IN IF ValidateBenchmarkExists(job, runStatus) # ""
       THEN [job |-> job, err |-> ValidateBenchmarkExists(job, runStatus)]
       ELSE IF withResults.err # ""
       THEN withResults
       ELSE [job |-> [withResults.job EXCEPT !.Status.State = overall.state,
                                             !.Status.Message = overall.message],
             err |-> ""]

\* UpdateEvaluationJob, first statement: begin the transaction and load the job
UpdateEvaluationJobLoad(p) ==
    /\ Free(p)
    /\ \E id \in JobIds, runStatus \in StatusEvents, fail \in BOOLEAN :
          LET proc == [IdleProc EXCEPT !.op = "event", !.id = id, !.runStatus = runStatus]
              got == getEvaluationJobTransactional(queryRow(db, id), id)
          IN procs' = [procs EXCEPT ![p] =
                 IF fail THEN Done(proc, "DatabaseOperationFailed")
                 ELSE IF got.err # "" THEN Done(proc, got.err)
                 ELSE [proc EXCEPT !.pc = "merge", !.job = got.job, !.snapshot = db[id],
                                   !.seen = got.job.Status.State]]
    /\ ops' = ops + 1
    /\ UNCHANGED <<db, nextId, aggJob, aggOut, budget, cluster, k8s>>
    /\ trail' = Track(db, db', trail)

\* a persist step that stores the benchmark status as soon as it is merged,
\* before the result is recorded
UpdateEvaluationJobPersistEarly(p) ==
    /\ procs[p].pc = "merge"
    /\ \E fail \in BOOLEAN :
          LET proc == procs[p]
              event == proc.runStatus.BenchmarkStatusEvent
              merged == UpdateEvaluationJobMerge(proc.job, proc.runStatus)
              early == UpdateBenchmarkStatus(proc.job, proc.runStatus,
                           BenchmarkStatus(event.ID, event.ProviderID, event.Status,
                                           event.ErrorMessage))
              shown == IF merged.err = "" THEN merged.job ELSE early
              table == updateEvaluationJobTxn(db, proc.id, shown.Status.State,
                                              EvaluationJobEntity(shown))
          IN IF ValidateBenchmarkExists(proc.job, proc.runStatus) # "" \/ fail
             THEN /\ db' = db
                  /\ procs' = [procs EXCEPT
                                  ![p] = Done([proc EXCEPT !.job = merged.job],
                                              IF merged.err # "" THEN merged.err
                                              ELSE "DatabaseOperationFailed")]
             ELSE /\ db' = table
                  /\ procs' = [procs EXCEPT
                                  ![p] = Done([proc EXCEPT !.job = merged.job,
                                                           !.wrote = table[proc.id]],
                                              IF merged.err # "" THEN merged.err ELSE "ok")]
    /\ UNCHANGED <<ops, nextId, aggJob, aggOut, budget, cluster, k8s>>
    /\ trail' = Track(db, db', trail)

\* UpdateEvaluationJob, the rest: merge the event into the loaded job, then the
\* UPDATE and the commit, or the first error and the rollback
UpdateEvaluationJobPersist(p) ==
    /\ procs[p].pc = "merge"
    /\ \E fail \in BOOLEAN :
          LET proc == procs[p]
              merged == UpdateEvaluationJobMerge(proc.job, proc.runStatus)
              table == updateEvaluationJobTxn(db, proc.id, merged.job.Status.State,
                                              EvaluationJobEntity(merged.job))
          IN IF merged.err # ""
             THEN /\ db' = db
                  /\ procs' = [procs EXCEPT
                                  ![p] = Done([proc EXCEPT !.job = merged.job], merged.err)]
             ELSE IF fail
             THEN /\ db' = db
                  /\ procs' = [procs EXCEPT
                                  ![p] = Done([proc EXCEPT !.job = merged.job],
                                              "DatabaseOperationFailed")]
             ELSE /\ db' = table
                  /\ procs' = [procs EXCEPT
                                  ![p] = Done([proc EXCEPT !.job = merged.job,
                                                           !.wrote = table[proc.id]], "ok")]
    /\ UNCHANGED <<ops, nextId, aggJob, aggOut, budget, cluster, k8s>>
    /\ trail' = Track(db, db', trail)

\* a guard that has no case for the cancelled job and lets it be updated again
statusSwitchNoSkip(state) ==
    IF state \in {OverallStateCompleted, OverallStateFailed} THEN "refuse"
    ELSE "update"

\* a guard that refuses a completed job and forgets the failed one
statusSwitchCompletedOnly(state) ==
    IF state = OverallStateCancelled THEN "skip"
    ELSE IF state = OverallStateCompleted THEN "refuse"
    ELSE "update"

\* the switch of UpdateEvaluationJobStatus on the state of the loaded job
statusSwitch(state) ==
    IF state = OverallStateCancelled THEN "skip"
    ELSE IF state \in {OverallStateCompleted, OverallStateFailed} THEN "refuse"
    ELSE "update"

\* UpdateEvaluationJobStatus, first statement: begin the transaction, load the
\* job and refuse or skip by the state it shows
UpdateEvaluationJobStatusGuard(p) ==
    /\ Free(p)
    /\ \E id \in JobIds, state \in OverallStates, fail \in BOOLEAN :
          LET proc == [IdleProc EXCEPT !.op = "status", !.id = id, !.state = state,
                                       !.message = StatusMessage(state)]
              got == getEvaluationJobTransactional(queryRow(db, id), id)
              loaded == [proc EXCEPT !.job = got.job, !.snapshot = db[id],
                                     !.seen = got.job.Status.State]
          IN procs' = [procs EXCEPT ![p] =
                 IF fail THEN Done(proc, "DatabaseOperationFailed")
                 ELSE IF got.err # "" THEN Done(proc, got.err)
                 ELSE IF statusSwitch(got.job.Status.State) = "skip"
                 THEN Done(loaded, "ok")
                 ELSE IF statusSwitch(got.job.Status.State) = "refuse"
                 THEN Done(loaded, "JobCanNotBeCancelled")
                 ELSE [loaded EXCEPT !.pc = "reload"]]
    /\ ops' = ops + 1
    /\ UNCHANGED <<db, nextId, aggJob, aggOut, budget, cluster, k8s>>
    /\ trail' = Track(db, db', trail)

\* a status overwrite that builds a fresh status and drops the benchmark statuses
updateEvaluationJobStatusTxnFresh(evaluationJob, overallState, message) ==
    [evaluationJob EXCEPT !.Status = [NilStatus EXCEPT !.isNil = FALSE,
                                                       !.State = overallState,
                                                       !.Message = message]]

\* updateEvaluationJobStatusTxn on the job it loaded: overwrite state and message
updateEvaluationJobStatusTxn(evaluationJob, overallState, message) ==
    [evaluationJob EXCEPT !.Status.State = overallState, !.Status.Message = message]

\* UpdateEvaluationJobStatus, second statement: updateEvaluationJobStatusTxn
\* loads the job again
UpdateEvaluationJobStatusReload(p) ==
    /\ procs[p].pc = "reload"
    /\ \E fail \in BOOLEAN :
          LET proc == procs[p]
              got == getEvaluationJobTransactional(queryRow(db, proc.id), proc.id)
          IN procs' = [procs EXCEPT ![p] =
                 IF fail THEN Done(proc, "DatabaseOperationFailed")
                 ELSE IF got.err # "" THEN Done(proc, got.err)
                 ELSE [proc EXCEPT !.pc = "write",
                                   !.job = updateEvaluationJobStatusTxn(got.job, proc.state,
                                                                        proc.message)]]
    /\ UNCHANGED <<db, ops, nextId, aggJob, aggOut, budget, cluster, k8s>>
    /\ trail' = Track(db, db', trail)

\* UpdateEvaluationJobStatus, last statement: the UPDATE and the commit
UpdateEvaluationJobStatusWrite(p) ==
    /\ procs[p].pc = "write"
    /\ \E fail \in BOOLEAN :
          LET proc == procs[p]
              table == updateEvaluationJobTxn(db, proc.id, proc.state,
                                              EvaluationJobEntity(proc.job))
          IN IF fail
             THEN /\ db' = db
                  /\ procs' = [procs EXCEPT ![p] = Done(proc, "DatabaseOperationFailed")]
             ELSE /\ db' = table
                  /\ procs' = [procs EXCEPT
                                  ![p] = Done([proc EXCEPT !.wrote = table[proc.id]], "ok")]
    /\ UNCHANGED <<ops, nextId, aggJob, aggOut, budget, cluster, k8s>>
    /\ trail' = Track(db, db', trail)

\* a delete without the existence check: it goes on to the DELETE whatever it finds
DeleteEvaluationJobNoCheck(p) ==
    /\ Free(p)
    /\ \E id \in JobIds, fail \in BOOLEAN :
          LET proc == [IdleProc EXCEPT !.op = "delete", !.id = id]
              row == queryRow(db, id)
          IN procs' = [procs EXCEPT ![p] =
                 IF fail THEN Done(proc, "DatabaseOperationFailed")
                 ELSE [proc EXCEPT !.pc = "delete", !.snapshot = row]]
    /\ ops' = ops + 1
    /\ UNCHANGED <<db, nextId, aggJob, aggOut, budget, cluster, k8s>>
    /\ trail' = Track(db, db', trail)

\* DeleteEvaluationJob, first statement: begin the transaction and check the row
DeleteEvaluationJobCheck(p) ==
    /\ Free(p)
    /\ \E id \in JobIds, fail \in BOOLEAN :
          LET proc == [IdleProc EXCEPT !.op = "delete", !.id = id]
              row == queryRow(db, id)
          IN procs' = [procs EXCEPT ![p] =
                 IF fail THEN Done(proc, "DatabaseOperationFailed")
                 ELSE IF ~row.exists THEN Done(proc, "ResourceNotFound")
                 ELSE [proc EXCEPT !.pc = "delete", !.snapshot = row,
                                   !.seen = row.status]]
    /\ ops' = ops + 1
    /\ UNCHANGED <<db, nextId, aggJob, aggOut, budget, cluster, k8s>>
    /\ trail' = Track(db, db', trail)

\* a DELETE that also removes the Jobs and ConfigMaps named after the job
DeleteEvaluationJobExecCascading(p) ==
    /\ procs[p].pc = "delete"
    /\ \E fail \in BOOLEAN :
          IF fail
          THEN /\ db' = db
               /\ cluster' = cluster
               /\ procs' = [procs EXCEPT
                               ![p] = Done(procs[p], "DatabaseOperationFailed")]
          ELSE /\ db' = execDelete(db, procs[p].id)
               /\ cluster' = [configMaps |-> {r \in cluster.configMaps :
                                                 r.Name[2] # procs[p].id},
                              jobs |-> {r \in cluster.jobs : r.Name[2] # procs[p].id}]
               /\ procs' = [procs EXCEPT ![p] = Done(procs[p], "ok")]
    /\ UNCHANGED <<ops, nextId, aggJob, aggOut, budget, k8s>>
    /\ trail' = Track(db, db', trail)

\* DeleteEvaluationJob, last statement: the DELETE and the commit
DeleteEvaluationJobExec(p) ==
    /\ procs[p].pc = "delete"
    /\ \E fail \in BOOLEAN :
          IF fail
          THEN /\ db' = db
               /\ procs' = [procs EXCEPT
                               ![p] = Done(procs[p], "DatabaseOperationFailed")]
          ELSE /\ db' = execDelete(db, procs[p].id)
               /\ procs' = [procs EXCEPT ![p] = Done(procs[p], "ok")]
    /\ UNCHANGED <<ops, nextId, aggJob, aggOut, budget, cluster, k8s>>
    /\ trail' = Track(db, db', trail)

\* the arguments a List call is made with
ListLimits == 1..MaxRows
ListOffsets == 0..MaxRows
StatusFilters == {"", OverallStatePending}

\* the rows the filter of the count and list statements selects
MatchingIds(table, statusFilter) ==
    {id \in RowIds : table[id].exists
                      /\ (statusFilter = "" \/ table[id].status = statusFilter)}

\* the count statement: the number of rows under the filter, as last committed
countEntities(table, statusFilter) == Cardinality(MatchingIds(table, statusFilter))

\* the ids of a set in the order of the list statement
RECURSIVE OrderedIds(_)
OrderedIds(ids) ==
    IF ids = {} THEN <<>>
    ELSE LET first == CHOOSE id \in ids : \A other \in ids : id <= other
         IN <<first>> \o OrderedIds(ids \ {first})

\* the list statement: the rows under the filter, as last committed, from
\* `offset` on and at most `limit` of them
listEntities(table, limit, offset, statusFilter) ==
    LET ordered == OrderedIds(MatchingIds(table, statusFilter))
        last == IF offset + limit < Len(ordered) THEN offset + limit ELSE Len(ordered)
    IN [i \in 1..(IF last > offset THEN last - offset ELSE 0) |-> table[ordered[offset + i]]]

\* a loop that keeps the resource of the last row only
RECURSIVE ProcessRowsLastOnly(_, _, _)
ProcessRowsLastOnly(rows, i, acc) ==
    IF i > Len(rows) THEN acc
    ELSE IF JSONUnmarshalFails(rows[i].entity)
    THEN [acc EXCEPT !.err = "JSONUnmarshalFailed"]
    ELSE LET built == constructEvaluationResource(rows[i].status, NilMessageInfo,
                          rows[i].id, UnmarshalEntity(rows[i].entity))
         IN IF built.err # ""
            THEN ProcessRowsLastOnly(rows, i + 1,
                     [acc EXCEPT !.errors = Append(@, rows[i].id),
                                 !.totalCount = @ - 1])
            ELSE ProcessRowsLastOnly(rows, i + 1, [acc EXCEPT !.items = <<built.job>>])

\* the loop over the rows of the page: a row whose entity does not unmarshal
\* ends the call, a row whose resource cannot be constructed is counted out
RECURSIVE ProcessRows(_, _, _)
ProcessRows(rows, i, acc) ==
    IF i > Len(rows) THEN acc
    ELSE IF JSONUnmarshalFails(rows[i].entity)
    THEN [acc EXCEPT !.err = "JSONUnmarshalFailed"]
    ELSE LET built == constructEvaluationResource(rows[i].status, NilMessageInfo,
                          rows[i].id, UnmarshalEntity(rows[i].entity))
         IN IF built.err # ""
            THEN ProcessRows(rows, i + 1,
                     [acc EXCEPT !.errors = Append(@, rows[i].id),
                                 !.totalCount = @ - 1])
            ELSE ProcessRows(rows, i + 1, [acc EXCEPT !.items = Append(@, built.job)])

\* GetEvaluationJobs, first statement: the count query
GetEvaluationJobsCount(p) ==
    /\ Free(p)
    /\ \E limit \in ListLimits, offset \in ListOffsets, statusFilter \in StatusFilters,
          fail \in BOOLEAN :
          LET proc == [IdleProc EXCEPT !.op = "list",
                          !.list = [NoList EXCEPT !.limit = limit, !.offset = offset,
                                                  !.statusFilter = statusFilter]]
          IN procs' = [procs EXCEPT ![p] =
                 IF fail THEN Done(proc, "QueryFailed")
                 ELSE [proc EXCEPT !.pc = "page",
                                   !.list.totalCount = countEntities(db, statusFilter)]]
    /\ ops' = ops + 1
    /\ UNCHANGED <<db, nextId, aggJob, aggOut, budget, cluster, k8s>>
    /\ trail' = Track(db, db', trail)

\* GetEvaluationJobs, second statement: the list query and the loop over its rows
GetEvaluationJobsPage(p) ==
    /\ procs[p].pc = "page"
    /\ \E fail \in BOOLEAN :
          LET args == procs[p].list
              rows == listEntities(db, args.limit, args.offset, args.statusFilter)
              out == ProcessRows(rows, 1,
                         [items |-> <<>>, totalCount |-> args.totalCount,
                          errors |-> <<>>, err |-> ""])
          IN procs' = [procs EXCEPT ![p] =
                 IF fail THEN Done(procs[p], "QueryFailed")
                 ELSE IF out.err # "" THEN Done(procs[p], out.err)
                 ELSE Done([procs[p] EXCEPT !.list.items = out.items,
                                            !.list.totalCount = out.totalCount,
                                            !.list.errors = out.errors], "ok")]
    /\ UNCHANGED <<db, ops, nextId, aggJob, aggOut, budget, cluster, k8s>>
    /\ trail' = Track(db, db', trail)

-----------------------------------------------------------------------------
(* internal/runtimes/k8s: the cluster dispatcher *)

\* *int
NilInt == [isNil |-> TRUE, value |-> 0]
IntPtr(n) == [isNil |-> FALSE, value |-> n]

\* the fields of *api.EvaluationJobResource the dispatcher reads
K8sEvaluation(id, benchmarks, retryAttempts) ==
    [isNil |-> FALSE, ID |-> id, Benchmarks |-> benchmarks,
     RetryAttempts |-> retryAttempts]
NilEvaluation == [isNil |-> TRUE, ID |-> 0, Benchmarks |-> <<>>, RetryAttempts |-> NilInt]

\* *api.ProviderRuntime
ProviderRuntime(adapterImage, cpuRequest, memoryRequest, cpuLimit, memoryLimit, defaultEnv) ==
    [isNil |-> FALSE, AdapterImage |-> adapterImage, CPURequest |-> cpuRequest,
     MemoryRequest |-> memoryRequest, CPULimit |-> cpuLimit,
     MemoryLimit |-> memoryLimit, DefaultEnv |-> defaultEnv]
NilRuntime ==
    [isNil |-> TRUE, AdapterImage |-> "", CPURequest |-> "", MemoryRequest |-> "",
     CPULimit |-> "", MemoryLimit |-> "", DefaultEnv |-> <<>>]

\* api.ProviderResource
ProviderResource(providerID, benchmarks, runtime) ==
    [ProviderID |-> providerID,
     Benchmarks |-> [i \in 1..Len(benchmarks) |-> [BenchmarkId |-> benchmarks[i]]],
     Runtime |-> runtime]
NoProvider == ProviderResource("", <<>>, NilRuntime)

defaultCPURequest == "250m"
defaultMemoryRequest == "512Mi"
defaultCPULimit == "1"
defaultMemoryLimit == "2Gi"
defaultNamespace == "default"

\* what the process reads from its surroundings: the EVALHUB_SERVICE_URL
\* variable and the content of the service-account namespace file
Environment(serviceURL, inClusterNamespace) ==
    [EVALHUB_SERVICE_URL |-> serviceURL, inClusterNamespace |-> inClusterNamespace]

\* a resolution that takes the first benchmark of a job with several
resolveProviderFromEvaluationFirst(providers, evaluation) ==
    LET failed(err) == {[provider |-> NoProvider, benchmarkID |-> "", err |-> err]}
    IN IF DOMAIN providers = {} THEN failed("no provider configs loaded")
       ELSE IF Len(evaluation.Benchmarks) = 0
       THEN failed("evaluation contains no benchmarks")
       ELSE LET benchmarkID == evaluation.Benchmarks[1].ID
                found == {k \in DOMAIN providers :
                             \E i \in DOMAIN providers[k].Benchmarks :
                                 providers[k].Benchmarks[i].BenchmarkId = benchmarkID}
            IN IF benchmarkID = "" THEN failed("evaluation benchmark id is empty")
               ELSE IF found = {} THEN failed("no provider found for benchmark")
               ELSE {[provider |-> providers[k], benchmarkID |-> benchmarkID, err |-> ""] :
                        k \in found}

\* resolveProviderFromEvaluation: the outcomes it may return; the providers are
\* a Go map, ranged over in any order, so any provider that lists the
\* benchmark may be the one found
resolveProviderFromEvaluation(providers, evaluation) ==
    LET failed(err) == {[provider |-> NoProvider, benchmarkID |-> "", err |-> err]}
    IN IF DOMAIN providers = {} THEN failed("no provider configs loaded")
       ELSE IF Len(evaluation.Benchmarks) = 0
       THEN failed("evaluation contains no benchmarks")
       ELSE IF Len(evaluation.Benchmarks) > 1
       THEN failed("multi-benchmark evaluations are not supported")
       ELSE LET benchmarkID == evaluation.Benchmarks[1].ID
                found == {k \in DOMAIN providers :
                             \E i \in DOMAIN providers[k].Benchmarks :
                                 providers[k].Benchmarks[i].BenchmarkId = benchmarkID}
            IN IF benchmarkID = "" THEN failed("evaluation benchmark id is empty")
               ELSE IF found = {} THEN failed("no provider found for benchmark")
               ELSE {[provider |-> providers[k], benchmarkID |-> benchmarkID, err |-> ""] :
                        k \in found}

defaultIfEmpty(value, fallback) == IF value = "" THEN fallback ELSE value

resolveNamespace(configured, env) ==
    IF configured # "" THEN configured
    ELSE IF env.inClusterNamespace # "" THEN env.inClusterNamespace
    ELSE defaultNamespace

NoJobConfig == [isNil |-> TRUE]

\* a buildJobConfig that takes the retry attempts as they come
buildJobConfigUnvalidated(evaluation, provider, benchmarkID, env) ==
    LET runtime == provider.Runtime
        failed(err) == [jobConfig |-> NoJobConfig, err |-> err]
    IN IF runtime.isNil THEN failed("provider missing runtime configuration")
       ELSE IF runtime.AdapterImage = "" THEN failed("runtime adapter image is required")
       ELSE IF env.EVALHUB_SERVICE_URL = "" THEN failed("EVALHUB_SERVICE_URL is required")
       ELSE [jobConfig |->
                [isNil |-> FALSE,
                 jobID |-> evaluation.ID,
                 namespace |-> resolveNamespace("", env),
                 providerID |-> provider.ProviderID,
                 benchmarkID |-> benchmarkID,
                 retryAttempts |-> IF evaluation.RetryAttempts.isNil THEN 0
                                   ELSE evaluation.RetryAttempts.value,
                 adapterImage |-> runtime.AdapterImage,
                 evalHubServiceURL |-> env.EVALHUB_SERVICE_URL,
                 defaultEnv |-> runtime.DefaultEnv,
                 cpuRequest |-> defaultIfEmpty(runtime.CPURequest, defaultCPURequest),
                 memoryRequest |-> defaultIfEmpty(runtime.MemoryRequest, defaultMemoryRequest),
                 cpuLimit |-> defaultIfEmpty(runtime.CPULimit, defaultCPULimit),
                 memoryLimit |-> defaultIfEmpty(runtime.MemoryLimit, defaultMemoryLimit)],
             err |-> ""]

\* buildJobConfig
buildJobConfig(evaluation, provider, benchmarkID, env) ==
    LET runtime == provider.Runtime
        failed(err) == [jobConfig |-> NoJobConfig, err |-> err]
    IN IF runtime.isNil THEN failed("provider missing runtime configuration")
       ELSE IF runtime.AdapterImage = "" THEN failed("runtime adapter image is required")
       ELSE IF env.EVALHUB_SERVICE_URL = "" THEN failed("EVALHUB_SERVICE_URL is required")
       ELSE IF ~evaluation.RetryAttempts.isNil /\ evaluation.RetryAttempts.value < 0
       THEN failed("retry attempts cannot be negative")
       ELSE [jobConfig |->
                [isNil |-> FALSE,
                 jobID |-> evaluation.ID,
                 namespace |-> resolveNamespace("", env),
                 providerID |-> provider.ProviderID,
                 benchmarkID |-> benchmarkID,
                 retryAttempts |-> IF evaluation.RetryAttempts.isNil THEN 0
                                   ELSE evaluation.RetryAttempts.value,
                 adapterImage |-> runtime.AdapterImage,
                 evalHubServiceURL |-> env.EVALHUB_SERVICE_URL,
                 defaultEnv |-> runtime.DefaultEnv,
                 cpuRequest |-> defaultIfEmpty(runtime.CPURequest, defaultCPURequest),
                 memoryRequest |-> defaultIfEmpty(runtime.MemoryRequest, defaultMemoryRequest),
                 cpuLimit |-> defaultIfEmpty(runtime.CPULimit, defaultCPULimit),
                 memoryLimit |-> defaultIfEmpty(runtime.MemoryLimit, defaultMemoryLimit)],
             err |-> ""]

\* the names of the resources of a benchmark of a job
configMapName(jobID, benchmarkID) == <<"eval-job", jobID, benchmarkID, "spec">>
jobName(jobID, benchmarkID) == <<"eval-job", jobID, benchmarkID>>

\* a cluster resource as the dispatcher addresses it
Resource(namespace, name) == [Namespace |-> namespace, Name |-> name]
NoResource == Resource("", <<>>)

buildConfigMap(jobConfig) ==
    Resource(jobConfig.namespace, configMapName(jobConfig.jobID, jobConfig.benchmarkID))

buildJob(jobConfig) ==
    Resource(jobConfig.namespace, jobName(jobConfig.jobID, jobConfig.benchmarkID))

\* the cluster: the ConfigMaps and the Jobs it holds
NoCluster == [configMaps |-> {}, jobs |-> {}]

\* the errors of the cluster API other than AlreadyExists and NotFound
ApiFailures == {"InternalError"}

\* KubernetesHelper.CreateConfigMap: the outcomes of the call
CreateConfigMap(cl, namespace, name) ==
    IF namespace = "" \/ name = <<>>
    THEN {[cluster |-> cl, err |-> "namespace and name are required"]}
    ELSE IF Resource(namespace, name) \in cl.configMaps
    THEN {[cluster |-> cl, err |-> e] : e \in {"AlreadyExists"} \cup ApiFailures}
    ELSE {[cluster |-> [cl EXCEPT !.configMaps = @ \cup {Resource(namespace, name)}],
           err |-> ""]}
         \cup {[cluster |-> cl, err |-> e] : e \in ApiFailures}

\* KubernetesHelper.CreateJob: the outcomes of the call
CreateJob(cl, job) ==
    IF job.Namespace = "" \/ job.Name = <<>>
    THEN {[cluster |-> cl, err |-> "job, namespace, and name are required"]}
    ELSE IF job \in cl.jobs
    THEN {[cluster |-> cl, err |-> e] : e \in {"AlreadyExists"} \cup ApiFailures}
    ELSE {[cluster |-> [cl EXCEPT !.jobs = @ \cup {job}], err |-> ""]}
         \cup {[cluster |-> cl, err |-> e] : e \in ApiFailures}

\* KubernetesHelper.DeleteConfigMap: the outcomes of the call
DeleteConfigMap(cl, namespace, name) ==
    IF namespace = "" \/ name = <<>>
    THEN {[cluster |-> cl, err |-> "namespace and name are required"]}
    ELSE IF Resource(namespace, name) \notin cl.configMaps
    THEN {[cluster |-> cl, err |-> e] : e \in {"NotFound"} \cup ApiFailures}
    ELSE {[cluster |-> [cl EXCEPT !.configMaps = @ \ {Resource(namespace, name)}],
           err |-> ""]}
         \cup {[cluster |-> cl, err |-> e] : e \in ApiFailures}

\* KubernetesHelper.DeleteJob: the outcomes of the call
DeleteJob(cl, namespace, name) ==
    IF namespace = "" \/ name = <<>>
    THEN {[cluster |-> cl, err |-> "namespace and name are required"]}
    ELSE IF Resource(namespace, name) \notin cl.jobs
    THEN {[cluster |-> cl, err |-> e] : e \in {"NotFound"} \cup ApiFailures}
    ELSE {[cluster |-> [cl EXCEPT !.jobs = @ \ {Resource(namespace, name)}], err |-> ""]}
         \cup {[cluster |-> cl, err |-> e] : e \in ApiFailures}

\* a call of the cluster API as a dispatcher call made it
ApiCall(op, resource, err) == [op |-> op, resource |-> resource, err |-> err]

\* Cluster Job Builder, naming.  Here a string is the sequence of its
\* characters, so that sanitising and truncating are done character by character.
maxK8sNameLength == 63

jobPrefix == <<"e", "v", "a", "l", "-", "j", "o", "b", "-">>
specSuffix == <<"-", "s", "p", "e", "c">>

Digits == {"0", "1", "2", "3", "4", "5", "6", "7", "8", "9"}
LowerLetters ==
    {"a", "b", "c", "d", "e", "f", "g", "h", "i", "j", "k", "l", "m",
     "n", "o", "p", "q", "r", "s", "t", "u", "v", "w", "x", "y", "z"}

\* strings.ToLower on the letters of the model's alphabet
toLower(c) == IF c = "A" THEN "a" ELSE IF c = "B" THEN "b" ELSE c

\* strings.Trim(s, "-")
trimHyphens(s) ==
    LET kept == {i \in DOMAIN s : s[i] # "-"}
    IN IF kept = {} THEN <<>>
       ELSE SubSeq(s, CHOOSE i \in kept : \A j \in kept : i <= j,
                      CHOOSE i \in kept : \A j \in kept : i >= j)

\* strings.TrimRight(s, "-")
trimRightHyphens(s) ==
    LET kept == {i \in DOMAIN s : s[i] # "-"}
    IN IF kept = {} THEN <<>>
       ELSE SubSeq(s, 1, CHOOSE i \in kept : \A j \in kept : i >= j)

\* lower-case, every character that is not alphanumeric replaced by a hyphen,
\* the hyphens at both ends dropped
sanitizeDNS1123Label(value) ==
    trimHyphens([i \in DOMAIN value |->
        IF toLower(value[i]) \in LowerLetters \cup Digits THEN toLower(value[i])
        ELSE "-"])

\* the byte of a character of the model's alphabet
CharCode(c) ==
    CASE c = "a" -> 97 [] c = "b" -> 98 [] c = "A" -> 65 [] c = "B" -> 66
      [] c = "1" -> 49 [] c = "-" -> 45 [] c = "_" -> 95 [] c = "|" -> 124

hashLength == 4
hashModulus == 46337
hashBase == 257

HexDigit(n) ==
    <<"0", "1", "2", "3", "4", "5", "6", "7", "8", "9", "a", "b", "c", "d", "e", "f">>[n + 1]

RECURSIVE HexString(_, _)
HexString(n, digits) ==
    IF digits = 0 THEN <<>>
    ELSE Append(HexString(n \div 16, digits - 1), HexDigit(n % 16))

\* hashBase to the power n, modulo hashModulus
RECURSIVE hashPower(_)
hashPower(n) ==
    IF n = 0 THEN 1
    ELSE LET half == hashPower(n \div 2)
             square == (half * half) % hashModulus
         IN IF n % 2 = 0 THEN square ELSE (square * hashBase) % hashModulus

\* the digest of bytes lo..hi: the polynomial of the bytes in hashBase, modulo
\* hashModulus, computed by halves
RECURSIVE hashBytes(_, _, _)
hashBytes(bytes, lo, hi) ==
    IF lo > hi THEN 0
    ELSE IF lo = hi THEN CharCode(bytes[lo])
    ELSE LET mid == (lo + hi) \div 2
         IN (hashBytes(bytes, lo, mid) * hashPower(hi - mid)
                + hashBytes(bytes, mid + 1, hi)) % hashModulus

\* a digest that leaves the provider id out
shortHashNoProvider(jobID, providerID, benchmarkID) ==
    LET bytes == jobID \o <<"|">> \o benchmarkID
    IN HexString(hashBytes(bytes, 1, Len(bytes)), hashLength)

\* a fixed-length hexadecimal digest of the three ids as given (not sanitised)
shortHash(jobID, providerID, benchmarkID) ==
    LET bytes == jobID \o <<"|">> \o providerID \o <<"|">> \o benchmarkID
    IN HexString(hashBytes(bytes, 1, Len(bytes)), hashLength)

Min(a, b) == IF a < b THEN a ELSE b

\* a name that is never cut to the ceiling
buildK8sNameUncut(jobID, providerID, benchmarkID, suffix) ==
    jobPrefix \o sanitizeDNS1123Label(providerID) \o <<"-">>
        \o sanitizeDNS1123Label(benchmarkID) \o <<"-">> \o sanitizeDNS1123Label(jobID)
        \o <<"-">> \o shortHash(jobID, providerID, benchmarkID) \o suffix

\* the name of a cluster resource: the prefix, the sanitised provider,
\* benchmark and job ids joined by hyphens and cut so that the whole stays
\* within the ceiling, then the digest and the suffix
buildK8sName(jobID, providerID, benchmarkID, suffix) ==
    LET base == jobPrefix \o sanitizeDNS1123Label(providerID) \o <<"-">>
                    \o sanitizeDNS1123Label(benchmarkID) \o <<"-">>
                    \o sanitizeDNS1123Label(jobID)
        tail == <<"-">> \o shortHash(jobID, providerID, benchmarkID) \o suffix
        room == maxK8sNameLength - Len(tail)
    IN trimRightHyphens(SubSeq(base, 1, Min(room, Len(base)))) \o tail

\* the names built so far for one job and one benchmark, by provider
IdleNames == [jobID |-> <<>>, benchmarkID |-> <<>>, suffix |-> <<>>, built |-> {}]

\* a RunEvaluationJob call: where it stands, what it built, the cluster calls
\* it made, the error of the Job creation, what it logged and what it returned
IdleRun ==
    [pc |-> "idle", evaluation |-> NilEvaluation, jobConfig |-> NoJobConfig,
     configMap |-> NoResource, job |-> NoResource, calls |-> <<>>, err |-> "", logged |-> <<>>, result |-> ""]

\* a DeleteEvaluationJobResources call: the benchmark it stands at, the cluster
\* calls it made and the errors it joined
IdleDelete ==
    [pc |-> "idle", evaluation |-> NilEvaluation, namespace |-> "", index |-> 0,
     calls |-> <<>>, errs |-> <<>>]

\* run and run2 are two RunEvaluationJob calls that may be in flight together
IdleK8s == [run |-> IdleRun, run2 |-> IdleRun, del |-> IdleDelete, names |-> IdleNames]

\* the benchmark lists of the jobs handed to the dispatcher
K8sBenchmarkLists ==
    LET B(id) == BenchmarkConfig(id, "lm_evaluation_harness")
    IN {<<>>, <<B("arc_easy")>>, <<B("mmlu")>>, <<B("")>>, <<B("gsm8k")>>,
        <<BenchmarkConfig("arc_easy", "lighteval")>>,
        <<B("arc_easy"), B("mmlu")>>,
        <<B("arc_easy"), B("mmlu"), B("hellaswag")>>}

K8sEvaluations ==
    {K8sEvaluation(id, benchmarks, retryAttempts) :
        id \in JobIds, benchmarks \in K8sBenchmarkLists,
        retryAttempts \in {NilInt, IntPtr(-1), IntPtr(2)}}

\* the jobs handed to DeleteEvaluationJobResources, which reads their id and
\* their benchmarks only
K8sDeleteEvaluations == {e \in K8sEvaluations : e.RetryAttempts.isNil}

\* the alphabet of the ids given to the name builder: lower-case and upper-case
\* letters, a digit, the hyphen and a character that is not allowed in a name
IdChars == {"a", "A", "1", "-", "_"}

Repeat(c, n) == [i \in 1..n |-> c]

\* the ids given to the name builder: every string of up to MaxIdLen
\* characters, and two that are longer than a name may be
IdStrings ==
    UNION {[1..n -> IdChars] : n \in 0..MaxIdLen}
        \cup {Repeat("a", maxK8sNameLength + 1),
              Repeat("a", maxK8sNameLength) \o <<"_">>}

\* the job ids and benchmark ids the names are built for
IdSamples ==
    {<<>>, <<"a">>, <<"A", "_">>, <<"-", "1">>, <<"_">>, Repeat("a", maxK8sNameLength + 1)}

\* the suffixes: none for a Job, "-spec" for a ConfigMap
NameSuffixes == {<<>>, specSuffix}

\* buildK8sName called for the job and the benchmark at hand and one provider
BuildK8sName ==
    /\ Cardinality(k8s.names.built) < MaxNames
    /\ \E providerID \in IdStrings :
          /\ \A b \in k8s.names.built : b.providerID # providerID
          /\ k8s' = [k8s EXCEPT !.names.built = @ \cup
                 {[providerID |-> providerID,
                   name |-> buildK8sName(k8s.names.jobID, providerID,
                                         k8s.names.benchmarkID, k8s.names.suffix)]}]
    /\ UNCHANGED <<db, procs, ops, nextId, aggJob, aggOut, budget, trail, cluster>>

\* the provider configurations the dispatcher is constructed with: none, one
\* provider, and three providers of which two list arc_easy and two list mmlu
ProviderMaps ==
    LET harness == ProviderResource("lm_evaluation_harness",
                       <<"arc_easy", "mmlu", "hellaswag">>,
                       ProviderRuntime("quay.io/eval-hub/adapter:latest",
                                       "", "", "500m", "", <<>>))
        lighteval == ProviderResource("lighteval", <<"arc_easy">>, NilRuntime)
        ragas == ProviderResource("ragas", <<"mmlu">>,
                                  ProviderRuntime("", "", "", "", "", <<>>))
    IN {EmptyObject,
        "lm_evaluation_harness" :> harness,
        ("lm_evaluation_harness" :> harness) @@ ("lighteval" :> lighteval)
            @@ ("ragas" :> ragas)}

Environments ==
    {Environment(serviceURL, inClusterNamespace) :
        serviceURL \in {"", "http://eval-hub"}, inClusterNamespace \in {"", "eval-hub"}}

\* a RunEvaluationJob that never deletes the ConfigMap of a Job it could not create
RunEvaluationJobCreateJobNoCleanup(r) ==
    /\ k8s[r].pc = "createJob"
    /\ \E out \in CreateJob(cluster, k8s[r].job) :
          /\ cluster' = out.cluster
          /\ k8s' = [k8s EXCEPT ![r] =
                 [@ EXCEPT !.calls = Append(@, ApiCall("CreateJob", k8s[r].job, out.err)),
                           !.err = out.err, !.result = out.err, !.pc = "done"]]
    /\ UNCHANGED <<db, procs, ops, nextId, aggJob, aggOut, budget, trail>>

\* RunEvaluationJob up to the first cluster call: resolve the provider, build
\* the job configuration, the ConfigMap and the Job
RunEvaluationJobBuild(r) ==
    /\ k8s[r].pc \in {"idle", "done"}
    /\ ops < budget
    /\ \E evaluation \in K8sEvaluations \cup {NilEvaluation},
          providers \in ProviderMaps, env \in Environments :
          LET returned(err) == [IdleRun EXCEPT !.pc = "done", !.evaluation = evaluation,
                                               !.result = err]
          IN IF evaluation.isNil
             THEN k8s' = [k8s EXCEPT ![r] = returned("evaluation is required")]
             ELSE \E resolved \in resolveProviderFromEvaluation(providers, evaluation) :
                     IF resolved.err # ""
                     THEN k8s' = [k8s EXCEPT ![r] = returned(resolved.err)]
                     ELSE LET built == buildJobConfig(evaluation, resolved.provider,
                                                      resolved.benchmarkID, env)
                          IN IF built.err # ""
                             THEN k8s' = [k8s EXCEPT ![r] = returned(built.err)]
                             ELSE k8s' = [k8s EXCEPT ![r] =
                                      [IdleRun EXCEPT
                                          !.pc = "createConfigMap",
                                          !.evaluation = evaluation,
                                          !.jobConfig = built.jobConfig,
                                          !.configMap = buildConfigMap(built.jobConfig),
                                          !.job = buildJob(built.jobConfig)]]
    /\ ops' = ops + 1
    /\ UNCHANGED <<db, procs, nextId, aggJob, aggOut, budget, trail, cluster>>

\* a RunEvaluationJob that goes on to the Job whatever CreateConfigMap returned
RunEvaluationJobCreateConfigMapUnchecked(r) ==
    /\ k8s[r].pc = "createConfigMap"
    /\ \E out \in CreateConfigMap(cluster, k8s[r].configMap.Namespace,
                                  k8s[r].configMap.Name) :
          /\ cluster' = out.cluster
          /\ k8s' = [k8s EXCEPT ![r] =
                 [@ EXCEPT !.calls = Append(@, ApiCall("CreateConfigMap",
                                                       k8s[r].configMap, out.err)),
                           !.pc = "createJob"]]
    /\ UNCHANGED <<db, procs, ops, nextId, aggJob, aggOut, budget, trail>>

\* a RunEvaluationJob that takes a ConfigMap that is already there for its own
RunEvaluationJobCreateConfigMapIdempotent(r) ==
    /\ k8s[r].pc = "createConfigMap"
    /\ \E out \in CreateConfigMap(cluster, k8s[r].configMap.Namespace,
                                  k8s[r].configMap.Name) :
          LET err == IF out.err = "AlreadyExists" THEN "" ELSE out.err
          IN /\ cluster' = out.cluster
             /\ k8s' = [k8s EXCEPT ![r] =
                    [@ EXCEPT !.calls = Append(@, ApiCall("CreateConfigMap",
                                                          k8s[r].configMap, out.err)),
                              !.result = err,
                              !.pc = IF err # "" THEN "done" ELSE "createJob"]]
    /\ UNCHANGED <<db, procs, ops, nextId, aggJob, aggOut, budget, trail>>

\* RunEvaluationJob: the CreateConfigMap call
RunEvaluationJobCreateConfigMap(r) ==
    /\ k8s[r].pc = "createConfigMap"
    /\ \E out \in CreateConfigMap(cluster, k8s[r].configMap.Namespace,
                                  k8s[r].configMap.Name) :
          /\ cluster' = out.cluster
          /\ k8s' = [k8s EXCEPT ![r] =
                 [@ EXCEPT !.calls = Append(@, ApiCall("CreateConfigMap",
                                                       k8s[r].configMap, out.err)),
                           !.result = out.err,
                           !.pc = IF out.err # "" THEN "done" ELSE "createJob"]]
    /\ UNCHANGED <<db, procs, ops, nextId, aggJob, aggOut, budget, trail>>

\* RunEvaluationJob: the CreateJob call
RunEvaluationJobCreateJob(r) ==
    /\ k8s[r].pc = "createJob"
    /\ \E out \in CreateJob(cluster, k8s[r].job) :
          /\ cluster' = out.cluster
          /\ k8s' = [k8s EXCEPT ![r] =
                 [@ EXCEPT !.calls = Append(@, ApiCall("CreateJob", k8s[r].job, out.err)),
                           !.err = out.err,
                           !.pc = IF out.err # "" THEN "cleanup" ELSE "done"]]
    /\ UNCHANGED <<db, procs, ops, nextId, aggJob, aggOut, budget, trail>>

\* what RunEvaluationJob returns after the cleanup that ended with cleanupErr
\* once the creation of the Job failed with err, returning the cleanup error
cleanupResultLast(err, cleanupErr) == IF cleanupErr # "" THEN cleanupErr ELSE err

\* what RunEvaluationJob returns after the cleanup that ended with cleanupErr
\* once the creation of the Job failed with err
cleanupResult(err, cleanupErr) == err

\* RunEvaluationJob: the DeleteConfigMap call after the Job could not be created
RunEvaluationJobCleanup(r) ==
    /\ k8s[r].pc = "cleanup"
    /\ \E out \in DeleteConfigMap(cluster, k8s[r].configMap.Namespace,
                                  k8s[r].configMap.Name) :
          /\ cluster' = out.cluster
          /\ k8s' = [k8s EXCEPT ![r] =
                 [@ EXCEPT !.calls = Append(@, ApiCall("DeleteConfigMap",
                                                       k8s[r].configMap, out.err)),
                           !.logged = IF out.err # "" /\ out.err # "NotFound"
                                      THEN Append(@, out.err) ELSE @,
                           !.result = cleanupResult(k8s[r].err, out.err),
                           !.pc = "done"]]
    /\ UNCHANGED <<db, procs, ops, nextId, aggJob, aggOut, budget, trail>>

\* DeleteEvaluationJobResources up to the first cluster call
DeleteEvaluationJobResourcesStart ==
    /\ k8s.del.pc \in {"idle", "done"}
    /\ ops < budget
    /\ \E evaluation \in K8sDeleteEvaluations, env \in Environments :
          k8s' = [k8s EXCEPT !.del =
                     [IdleDelete EXCEPT
                         !.evaluation = evaluation,
                         !.namespace = resolveNamespace("", env),
                         !.index = 1,
                         !.pc = IF Len(evaluation.Benchmarks) = 0 THEN "done"
                                ELSE "deleteJob"]]
    /\ ops' = ops + 1
    /\ UNCHANGED <<db, procs, nextId, aggJob, aggOut, budget, trail, cluster>>

\* a DeleteEvaluationJobResources that returns at the first Job it cannot delete
DeleteEvaluationJobResourcesJobStopping ==
    /\ k8s.del.pc = "deleteJob"
    /\ LET name == jobName(k8s.del.evaluation.ID,
                           k8s.del.evaluation.Benchmarks[k8s.del.index].ID)
       IN \E out \in DeleteJob(cluster, k8s.del.namespace, name) :
             /\ cluster' = out.cluster
             /\ k8s' = [k8s EXCEPT !.del =
                    [@ EXCEPT !.calls = Append(@, ApiCall("DeleteJob",
                                             Resource(k8s.del.namespace, name), out.err)),
                              !.errs = IF out.err # "" THEN Append(@, out.err) ELSE @,
                              !.pc = IF out.err # "" THEN "done" ELSE "deleteConfigMap"]]
    /\ UNCHANGED <<db, procs, ops, nextId, aggJob, aggOut, budget, trail>>

\* DeleteEvaluationJobResources: the DeleteJob call of the benchmark it stands at
DeleteEvaluationJobResourcesJob ==
    /\ k8s.del.pc = "deleteJob"
    /\ LET name == jobName(k8s.del.evaluation.ID,
                           k8s.del.evaluation.Benchmarks[k8s.del.index].ID)
       IN \E out \in DeleteJob(cluster, k8s.del.namespace, name) :
             /\ cluster' = out.cluster
             /\ k8s' = [k8s EXCEPT !.del =
                    [@ EXCEPT !.calls = Append(@, ApiCall("DeleteJob",
                                             Resource(k8s.del.namespace, name), out.err)),
                              !.errs = IF out.err # "" THEN Append(@, out.err) ELSE @,
                              !.pc = "deleteConfigMap"]]
    /\ UNCHANGED <<db, procs, ops, nextId, aggJob, aggOut, budget, trail>>

\* a DeleteEvaluationJobResources that returns after the first benchmark
DeleteEvaluationJobResourcesConfigMapFirstOnly ==
    /\ k8s.del.pc = "deleteConfigMap"
    /\ LET name == configMapName(k8s.del.evaluation.ID,
                                 k8s.del.evaluation.Benchmarks[k8s.del.index].ID)
       IN \E out \in DeleteConfigMap(cluster, k8s.del.namespace, name) :
             /\ cluster' = out.cluster
             /\ k8s' = [k8s EXCEPT !.del =
                    [@ EXCEPT !.calls = Append(@, ApiCall("DeleteConfigMap",
                                             Resource(k8s.del.namespace, name), out.err)),
                              !.errs = IF out.err # "" THEN Append(@, out.err) ELSE @,
                              !.index = @ + 1,
                              !.pc = "done"]]
    /\ UNCHANGED <<db, procs, ops, nextId, aggJob, aggOut, budget, trail>>

\* DeleteEvaluationJobResources: the DeleteConfigMap call of the benchmark it
\* stands at, then the next benchmark or the return of the joined errors
DeleteEvaluationJobResourcesConfigMap ==
    /\ k8s.del.pc = "deleteConfigMap"
    /\ LET name == configMapName(k8s.del.evaluation.ID,
                                 k8s.del.evaluation.Benchmarks[k8s.del.index].ID)
       IN \E out \in DeleteConfigMap(cluster, k8s.del.namespace, name) :
             /\ cluster' = out.cluster
             /\ k8s' = [k8s EXCEPT !.del =
                    [@ EXCEPT !.calls = Append(@, ApiCall("DeleteConfigMap",
                                             Resource(k8s.del.namespace, name), out.err)),
                              !.errs = IF out.err # "" THEN Append(@, out.err) ELSE @,
                              !.index = @ + 1,
                              !.pc = IF k8s.del.index < Len(k8s.del.evaluation.Benchmarks)
                                     THEN "deleteJob" ELSE "done"]]
    /\ UNCHANGED <<db, procs, ops, nextId, aggJob, aggOut, budget, trail>>

-----------------------------------------------------------------------------
(* The job store under concurrent requests *)

NoOut == [done |-> FALSE, state |-> "", message |-> NilMessageInfo]

NoTrail == [id \in RowIds |-> <<>>]

Init ==
    /\ db = [id \in RowIds |-> NoRow]
    /\ procs = [p \in Procs |-> IdleProc]
    /\ ops = 0
    /\ nextId = 0
    /\ aggJob = NoJob
    /\ aggOut = NoOut
    /\ budget = MaxOps
    /\ trail = NoTrail
    /\ cluster = NoCluster
    /\ k8s = IdleK8s

Next ==
    \E p \in Procs :
        \/ CreateEvaluationJob(p)
        \/ GetEvaluationJob(p)
        \/ UpdateEvaluationJobLoad(p)
        \/ UpdateEvaluationJobPersist(p)
        \/ UpdateEvaluationJobStatusGuard(p)
        \/ UpdateEvaluationJobStatusReload(p)
        \/ UpdateEvaluationJobStatusWrite(p)
        \/ DeleteEvaluationJobCheck(p)
        \/ DeleteEvaluationJobExec(p)
        \/ GetEvaluationJobsCount(p)
        \/ GetEvaluationJobsPage(p)

Spec == Init /\ [][Next]_vars

-----------------------------------------------------------------------------
(* The job store under one request at a time *)

InitSeq ==
    /\ db = [id \in RowIds |-> NoRow]
    /\ procs = [p \in Procs |-> IdleProc]
    /\ ops = 0
    /\ nextId = 0
    /\ aggJob = NoJob
    /\ aggOut = NoOut
    /\ budget = MaxSeqOps
    /\ trail = NoTrail
    /\ cluster = NoCluster
    /\ k8s = IdleK8s

\* every call runs in the first request slot, so one call ends before the next begins
NextSeq ==
    \/ CreateEvaluationJob(1)
    \/ GetEvaluationJob(1)
    \/ UpdateEvaluationJobLoad(1)
    \/ UpdateEvaluationJobPersist(1)
    \/ UpdateEvaluationJobStatusGuard(1)
    \/ UpdateEvaluationJobStatusReload(1)
    \/ UpdateEvaluationJobStatusWrite(1)
    \/ DeleteEvaluationJobCheck(1)
    \/ DeleteEvaluationJobExec(1)

SpecSeq == InitSeq /\ [][NextSeq]_vars

-----------------------------------------------------------------------------
(* The reads of the job store over arbitrary tables *)

\* what the status column of a stored row may hold: nothing, a string that is
\* no overall state, or an overall state
ColumnValues ==
    {"", "archived", OverallStatePending, OverallStateRunning, OverallStateCompleted}

\* the overall states the blob of a stored row may hold
BlobStates == {OverallStatePending, OverallStateCompleted, OverallStateCancelled}

\* the entity column of a job whose blob holds `state`
RowEntity(state) ==
    MarshalEntity([Config |-> EvaluationJobConfig(
                                  ModelRef("http://test.com", "test"),
                                  <<BenchmarkConfig("arc_easy", "lm_evaluation_harness")>>,
                                  NilExperiment),
                   Status |-> [isNil |-> FALSE, State |-> state,
                               Message |-> NilMessageInfo, Benchmarks |-> <<>>],
                   Results |-> NilResults])

\* an entity column that is a JSON document without a configuration
NoConfigEntity ==
    MarshalEntity([Config |-> NilConfig,
                   Status |-> [isNil |-> FALSE, State |-> OverallStatePending,
                               Message |-> NilMessageInfo, Benchmarks |-> <<>>],
                   Results |-> NilResults])

\* the entity columns that do not give a resource
CorruptEntities == {MalformedJSON, NoConfigEntity}

\* the rows the table may hold under id `id`
StoredRows(id) ==
    {NoRow}
    \cup {[exists |-> TRUE, id |-> id, status |-> column, entity |-> RowEntity(state)] :
             column \in ColumnValues, state \in BlobStates}
    \cup {[exists |-> TRUE, id |-> id, status |-> OverallStatePending, entity |-> entity] :
             entity \in CorruptEntities}

InitRows ==
    /\ db \in {table \in [RowIds -> UNION {StoredRows(id) : id \in RowIds}] :
                  \A id \in RowIds : table[id] \in StoredRows(id)}
    /\ procs = [p \in Procs |-> IdleProc]
    /\ ops = 0
    /\ nextId = 0
    /\ aggJob = NoJob
    /\ aggOut = NoOut
    /\ budget = MaxReadOps
    /\ trail = NoTrail
    /\ cluster = NoCluster
    /\ k8s = IdleK8s

NextRows ==
    \E p \in Procs :
        \/ GetEvaluationJob(p)
        \/ GetEvaluationJobsCount(p)
        \/ GetEvaluationJobsPage(p)

SpecRows == InitRows /\ [][NextRows]_vars

-----------------------------------------------------------------------------
(* The pages of List over tables of jobs, with no writer *)

\* the rows of jobs the table may hold under id `id`
JobRows(id) ==
    {NoRow}
    \cup {[exists |-> TRUE, id |-> id, status |-> state, entity |-> RowEntity(state)] :
             state \in {OverallStatePending, OverallStateCompleted}}

InitPages ==
    /\ db \in {table \in [RowIds -> UNION {JobRows(id) : id \in RowIds}] :
                  \A id \in RowIds : table[id] \in JobRows(id)}
    /\ procs = [p \in Procs |-> IdleProc]
    /\ ops = 0
    /\ nextId = 0
    /\ aggJob = NoJob
    /\ aggOut = NoOut
    /\ budget = MaxPageOps
    /\ trail = NoTrail
    /\ cluster = NoCluster
    /\ k8s = IdleK8s

NextPages ==
    \E p \in Procs :
        \/ GetEvaluationJobsCount(p)
        \/ GetEvaluationJobsPage(p)

SpecPages == InitPages /\ [][NextPages]_vars

-----------------------------------------------------------------------------
(* The cluster dispatcher on its own *)

\* the clusters the dispatcher may find, all in the default namespace: nothing,
\* the ConfigMap of (job 1, arc_easy), the Job of (job 1, arc_easy), or the
\* ConfigMaps and Jobs of the first two benchmarks of job 1
SeededClusters ==
    LET configMapOf(b) == Resource(defaultNamespace, configMapName(1, b))
        jobOf(b) == Resource(defaultNamespace, jobName(1, b))
    IN {NoCluster,
        [configMaps |-> {configMapOf("arc_easy")}, jobs |-> {}],
        [configMaps |-> {}, jobs |-> {jobOf("arc_easy")}],
        [configMaps |-> {configMapOf("arc_easy"), configMapOf("mmlu")},
         jobs |-> {jobOf("arc_easy"), jobOf("mmlu")}]}

InitK8s ==
    /\ db = [id \in RowIds |-> NoRow]
    /\ procs = [p \in Procs |-> IdleProc]
    /\ ops = 0
    /\ nextId = 0
    /\ aggJob = NoJob
    /\ aggOut = NoOut
    /\ budget = MaxK8sOps
    /\ trail = NoTrail
    /\ cluster \in SeededClusters
    /\ k8s = IdleK8s

NextK8s ==
    \/ RunEvaluationJobBuild("run")
    \/ RunEvaluationJobCreateConfigMap("run")
    \/ RunEvaluationJobCreateJob("run")
    \/ RunEvaluationJobCleanup("run")
    \/ DeleteEvaluationJobResourcesStart
    \/ DeleteEvaluationJobResourcesJob
    \/ DeleteEvaluationJobResourcesConfigMap

SpecK8s == InitK8s /\ [][NextK8s]_vars

-----------------------------------------------------------------------------
(* Two RunEvaluationJob calls side by side *)

InitRuns ==
    /\ db = [id \in RowIds |-> NoRow]
    /\ procs = [p \in Procs |-> IdleProc]
    /\ ops = 0
    /\ nextId = 0
    /\ aggJob = NoJob
    /\ aggOut = NoOut
    /\ budget = MaxRunOps
    /\ trail = NoTrail
    /\ cluster = NoCluster
    /\ k8s = IdleK8s

NextRuns ==
    \E r \in {"run", "run2"} :
        \/ RunEvaluationJobBuild(r)
        \/ RunEvaluationJobCreateConfigMap(r)
        \/ RunEvaluationJobCreateJob(r)
        \/ RunEvaluationJobCleanup(r)

SpecRuns == InitRuns /\ [][NextRuns]_vars

-----------------------------------------------------------------------------
(* The name builder on arbitrary ids *)

InitNames ==
    /\ db = [id \in RowIds |-> NoRow]
    /\ procs = [p \in Procs |-> IdleProc]
    /\ ops = 0
    /\ nextId = 0
    /\ aggJob = NoJob
    /\ aggOut = NoOut
    /\ budget = 0
    /\ trail = NoTrail
    /\ cluster = NoCluster
    /\ \E jobID \in IdSamples, benchmarkID \in IdSamples, suffix \in NameSuffixes :
          k8s = [IdleK8s EXCEPT !.names = [IdleNames EXCEPT !.jobID = jobID,
                                                            !.benchmarkID = benchmarkID,
                                                            !.suffix = suffix]]

NextNames == BuildK8sName

SpecNames == InitNames /\ [][NextNames]_vars

-----------------------------------------------------------------------------
(* The job store and the cluster dispatcher side by side *)

InitDispatch ==
    /\ db = [id \in RowIds |-> NoRow]
    /\ procs = [p \in Procs |-> IdleProc]
    /\ ops = 0
    /\ nextId = 0
    /\ aggJob = NoJob
    /\ aggOut = NoOut
    /\ budget = MaxDispatchOps
    /\ trail = NoTrail
    /\ cluster = NoCluster
    /\ k8s = IdleK8s

\* the store calls run in the first request slot; RunEvaluationJob runs beside
\* them
NextDispatch ==
    \/ CreateEvaluationJob(1)
    \/ UpdateEvaluationJobStatusGuard(1)
    \/ UpdateEvaluationJobStatusReload(1)
    \/ UpdateEvaluationJobStatusWrite(1)
    \/ DeleteEvaluationJobCheck(1)
    \/ DeleteEvaluationJobExec(1)
    \/ RunEvaluationJobBuild("run")
    \/ RunEvaluationJobCreateConfigMap("run")
    \/ RunEvaluationJobCreateJob("run")
    \/ RunEvaluationJobCleanup("run")

SpecDispatch == InitDispatch /\ [][NextDispatch]_vars

\* the same, with every call that has started carried to its end: a handler
\* that has begun runs on, and so does the server that takes the requests
SpecDispatchLive == SpecDispatch /\ WF_vars(NextDispatch)

-----------------------------------------------------------------------------
(* The aggregator on arbitrary inputs *)

\* the benchmark statuses a recorded list may hold
AggBenchmarks ==
    {BenchmarkStatus(b, "lm_evaluation_harness", st, NilMessageInfo) :
        b \in BenchmarkIds, st \in States}
    \cup {BenchmarkStatus(b, "lm_evaluation_harness", StateFailed, e) :
        b \in BenchmarkIds, e \in ErrorMessages}

\* a job with `total` configured benchmarks and the recorded list `benchmarks`
AggJobOf(total, benchmarks) ==
    [isNil |-> FALSE,
     Resource |-> [ID |-> 1, Message |-> NilMessageInfo],
     Status |-> [isNil |-> FALSE, State |-> OverallStatePending,
                 Message |-> NilMessageInfo, Benchmarks |-> benchmarks],
     EvaluationJobConfig |->
         EvaluationJobConfig(ModelRef("http://test.com", "test"),
                             [i \in 1..total |->
                                 BenchmarkConfig("arc_easy", "lm_evaluation_harness")],
                             NilExperiment),
     Results |-> NilResults]

InitAgg ==
    /\ db = [id \in RowIds |-> NoRow]
    /\ budget = 0
    /\ trail = NoTrail
    /\ cluster = NoCluster
    /\ k8s = IdleK8s
    /\ procs = [p \in Procs |-> IdleProc]
    /\ ops = 0
    /\ nextId = 0
    /\ \E total \in 0..MaxLen, n \in 0..MaxLen :
          \E benchmarks \in [1..n -> AggBenchmarks] :
              aggJob = AggJobOf(total, benchmarks)
    /\ aggOut = NoOut

\* RecomputeOverallState on the harness job
Aggregate ==
    /\ ~aggOut.done
    /\ aggOut' = [done |-> TRUE,
                  state |-> GetOverallJobStatus(aggJob).state,
                  message |-> GetOverallJobStatus(aggJob).message]
    /\ UNCHANGED <<db, procs, ops, nextId, aggJob, budget, trail, cluster, k8s>>

NextAgg == Aggregate

SpecAgg == InitAgg /\ [][NextAgg]_vars

-----------------------------------------------------------------------------
(* Reading the persisted state back, for the properties below *)

TerminalOverallStates == {OverallStateCompleted, OverallStateFailed}
TerminalBenchmarkStates == {StateCompleted, StateFailed, StateCancelled}

\* the overall state a Get of the row shows
PersistedState(row) == getEvaluationJobTransactional(row, row.id).job.Status.State

\* the benchmark statuses, the results and the configured benchmarks in the blob
StoredStatuses(row) == UnmarshalEntity(row.entity).Status.Benchmarks
StoredResults(row) == UnmarshalEntity(row.entity).Results.Benchmarks
StoredConfig(row) == UnmarshalEntity(row.entity).Config.Benchmarks

KeyOf(x) == <<x.ID, x.ProviderID>>
KeysOf(list) == {KeyOf(list[i]) : i \in DOMAIN list}
EntriesOf(list, key) == {list[i] : i \in {j \in DOMAIN list : KeyOf(list[j]) = key}}
CountOf(list, key) == Cardinality({i \in DOMAIN list : KeyOf(list[i]) = key})

EventOf(p) == procs[p].runStatus.BenchmarkStatusEvent

\* slot p takes a step of an UpdateEvaluationJob call
EventStep(p) == procs'[p] # procs[p] /\ procs'[p].op = "event"

\* slot p takes the last step of an UpdateEvaluationJob call that had loaded its job
EventPersistStep(p) ==
    procs[p].op = "event" /\ procs[p].pc = "merge" /\ procs'[p].pc = "done"

-----------------------------------------------------------------------------
(* Properties of the job store *)

\* C1: UpdateEvaluationJob (ApplyStatusEvent) is all-or-nothing: every step of a
\* call leaves every persisted row (status column and blob: status.benchmarks,
\* results.benchmarks, overall state and message) exactly as it was, except the
\* last step of a call that returns success; a call that fails (job not found,
\* benchmark key not configured, result already recorded, backend failure) has
\* written nothing.
C1_AllOrNothing ==
    [][\A p \in Procs :
          EventStep(p) /\ ~(procs'[p].pc = "done" /\ procs'[p].result = "ok")
              => db' = db]_vars

\* a call that failed on the duplicate result after it had changed the benchmark
\* status in its own copy of the job, which differs from the persisted one
C1_Witness ==
    \E p \in Procs :
        /\ procs[p].op = "event" /\ procs[p].pc = "done"
        /\ procs[p].result = "InternalServerError"
        /\ db[procs[p].id].exists
        /\ procs[p].job.Status.Benchmarks # StoredStatuses(db[procs[p].id])
        /\ db[procs[p].id] = procs[p].snapshot

\* C2: once the persisted overall state of a job is completed or failed, no step
\* that keeps the row changes the overall state.
C2_TerminalStateFrozen ==
    [][\A id \in JobIds :
          /\ db[id].exists /\ db'[id].exists
          /\ PersistedState(db[id]) \in TerminalOverallStates
          => PersistedState(db'[id]) = PersistedState(db[id])]_vars

\* C3: an UpdateEvaluationJobStatus call (SetStatus, and SoftDelete as the target
\* cancelled) that finds the job completed or failed ends at once with the
\* terminal-state error, whatever the target state, and writes nothing.
C3_TerminalRefused ==
    \A p \in Procs :
        procs[p].op = "status" /\ procs[p].seen \in TerminalOverallStates
            => /\ procs[p].pc = "done"
               /\ procs[p].result = "JobCanNotBeCancelled"
               /\ procs[p].wrote = NoRow
               /\ procs[p].state \in OverallStates

\* a status override to a state other than cancelled, refused on a failed job
C3_Witness ==
    \E p \in Procs :
        /\ procs[p].op = "status" /\ procs[p].pc = "done"
        /\ procs[p].seen = OverallStateFailed
        /\ procs[p].state = OverallStateRunning
        /\ procs[p].result = "JobCanNotBeCancelled"
        /\ db[procs[p].id].exists
        /\ PersistedState(db[procs[p].id]) = OverallStateFailed

\* C6: two UpdateEvaluationJob calls on one job that loaded the same pre-update
\* row and both committed: when the persisted row is the one the later call (q)
\* wrote, the benchmark status and result the earlier call (p) committed are not
\* in it (its key shows what the common pre-update row showed), and the overall
\* state is the aggregate of the persisted list, which lacks p's update.
LostUpdate(p, q) ==
    /\ p # q
    /\ procs[p].op = "event" /\ procs[p].pc = "done" /\ procs[p].result = "ok"
    /\ procs[q].op = "event" /\ procs[q].pc = "done" /\ procs[q].result = "ok"
    /\ procs[p].id = procs[q].id
    /\ procs[p].snapshot.exists
    /\ procs[p].snapshot = procs[q].snapshot
    /\ procs[p].wrote.exists /\ procs[q].wrote.exists
    /\ KeyOf(EventOf(p)) # KeyOf(EventOf(q))
    /\ EntriesOf(StoredStatuses(procs[p].wrote), KeyOf(EventOf(p)))
           # EntriesOf(StoredStatuses(procs[p].snapshot), KeyOf(EventOf(p)))
    /\ db[procs[q].id] = procs[q].wrote

\* the overall state by counting, first match first
StateByCount(total, list) ==
    LET count(st) == Cardinality({i \in DOMAIN list : list[i].Status = st})
    IN IF count(StateCompleted) = total THEN OverallStateCompleted
       ELSE IF count(StateFailed) = total THEN OverallStateFailed
       ELSE IF count(StateCompleted) + count(StateFailed) = total
       THEN OverallStatePartiallyFailed
       ELSE IF count(StateRunning) > 0 THEN OverallStateRunning
       ELSE OverallStatePending

C6_LaterCommitWins ==
    \A p, q \in Procs :
        LostUpdate(p, q) =>
            LET row == db[procs[q].id]
                key == KeyOf(EventOf(p))
            IN /\ EntriesOf(StoredStatuses(row), key)
                      = EntriesOf(StoredStatuses(procs[p].snapshot), key)
               /\ EntriesOf(StoredResults(row), key)
                      = EntriesOf(StoredResults(procs[p].snapshot), key)
               /\ PersistedState(row)
                      = StateByCount(Len(StoredConfig(row)), StoredStatuses(row))

\* both benchmarks of a job reported completed by concurrent callbacks, both
\* commits succeeded, and the job is left pending with one status and one result
C6_Witness ==
    \E p, q \in Procs :
        /\ LostUpdate(p, q)
        /\ EventOf(p).Status = StateCompleted
        /\ EventOf(q).Status = StateCompleted
        /\ Len(StoredConfig(db[procs[q].id])) = 2
        /\ PersistedState(procs[p].wrote) = OverallStatePending
        /\ PersistedState(db[procs[q].id]) = OverallStatePending
        /\ Len(StoredResults(db[procs[q].id])) = 1

\* C7: results.benchmarks holds at most one result per (benchmark id, provider
\* id), and a result once persisted is neither changed nor removed by any later
\* step that keeps the row.
C7_ResultsWriteOnce ==
    [][\A id \in JobIds :
          db'[id].exists =>
              /\ \A key \in KeysOf(StoredResults(db'[id])) :
                     CountOf(StoredResults(db'[id]), key) = 1
              /\ db[id].exists =>
                     \A key \in KeysOf(StoredResults(db[id])) :
                         EntriesOf(StoredResults(db'[id]), key)
                             = EntriesOf(StoredResults(db[id]), key)]_vars

\* C8 as stated: after a terminal event for a key whose result is already
\* recorded has failed in UpdateBenchmarkResults, the persisted status.benchmarks
\* shows the benchmark status that event carried.
C8_SecondStatusRecorded ==
    \A p \in Procs :
        /\ procs[p].op = "event" /\ procs[p].pc = "done"
        /\ procs[p].result = "InternalServerError"
        /\ db[procs[p].id].exists
        => \E i \in DOMAIN StoredStatuses(db[procs[p].id]) :
               /\ KeyOf(StoredStatuses(db[procs[p].id])[i]) = KeyOf(EventOf(p))
               /\ StoredStatuses(db[procs[p].id])[i].Status = EventOf(p).Status

\* C8 amended: a terminal event for a configured key whose result the loaded job
\* already holds fails in UpdateBenchmarkResults with the internal error; the
\* event's benchmark status is set in the call's own copy of the job only, and
\* the call writes nothing, so the persisted status and result stay as they were.
C8_SecondEventRolledBack ==
    [][\A p \in Procs :
          /\ EventPersistStep(p)
          /\ EventOf(p).Status \in TerminalBenchmarkStates
          /\ KeyOf(EventOf(p)) \in KeysOf(procs[p].job.EvaluationJobConfig.Benchmarks)
          /\ KeyOf(EventOf(p)) \in KeysOf(procs[p].job.Results.Benchmarks)
          => /\ procs'[p].result = "InternalServerError"
             /\ db' = db
             /\ EntriesOf(procs'[p].job.Status.Benchmarks, KeyOf(EventOf(p)))
                    = {BenchmarkStatus(EventOf(p).ID, EventOf(p).ProviderID,
                                       EventOf(p).Status, EventOf(p).ErrorMessage)}]_vars

\* a failed event that followed a completed one for the same key: refused, its
\* status in the call's copy, the persisted status still completed
C8_Witness ==
    \E p \in Procs :
        /\ procs[p].op = "event" /\ procs[p].pc = "done"
        /\ procs[p].result = "InternalServerError"
        /\ EventOf(p).Status = StateFailed
        /\ db[procs[p].id].exists
        /\ \E entry \in EntriesOf(procs[p].job.Status.Benchmarks, KeyOf(EventOf(p))) :
               entry.Status = StateFailed
        /\ \E entry \in EntriesOf(StoredStatuses(db[procs[p].id]), KeyOf(EventOf(p))) :
               entry.Status = StateCompleted
        /\ KeyOf(EventOf(p)) \in KeysOf(StoredResults(db[procs[p].id]))

\* C9: every key in the persisted status.benchmarks or results.benchmarks is a
\* key of config.benchmarks, status.benchmarks holds one entry per key, and an
\* event on an existing job whose key is not configured ends with NotFound.
C9_KeysConfigured ==
    /\ \A id \in JobIds :
           db[id].exists =>
               /\ KeysOf(StoredStatuses(db[id])) \subseteq KeysOf(StoredConfig(db[id]))
               /\ KeysOf(StoredResults(db[id])) \subseteq KeysOf(StoredConfig(db[id]))
               /\ \A key \in KeysOf(StoredStatuses(db[id])) :
                      CountOf(StoredStatuses(db[id]), key) = 1
    /\ \A p \in Procs :
           /\ procs[p].op = "event" /\ procs[p].pc = "done"
           /\ procs[p].snapshot.exists
           /\ KeyOf(EventOf(p)) \notin KeysOf(StoredConfig(procs[p].snapshot))
           => procs[p].result = "ResourceNotFound"

\* an event of a provider the job is not configured with, for a benchmark id it
\* is configured with, refused on a job that holds a status
C9_Witness ==
    \E p \in Procs :
        /\ procs[p].op = "event" /\ procs[p].pc = "done"
        /\ procs[p].snapshot.exists
        /\ procs[p].result = "ResourceNotFound"
        /\ EventOf(p).ProviderID = "lighteval"
        /\ db[procs[p].id].exists
        /\ StoredStatuses(db[procs[p].id]) # <<>>

\* C10: the persisted overall state becomes cancelled only by the write of an
\* UpdateEvaluationJobStatus call whose target is cancelled and whose guard found
\* the job neither completed nor failed (nor cancelled); the row an
\* UpdateEvaluationJob call writes never has the overall state cancelled.
C10_CancelledOnlyBySoftDelete ==
    [][\A id \in JobIds :
          /\ (/\ db'[id].exists
              /\ PersistedState(db'[id]) = OverallStateCancelled
              /\ (db[id].exists => PersistedState(db[id]) # OverallStateCancelled)
              => \E p \in Procs :
                     /\ procs[p].op = "status" /\ procs[p].pc = "write"
                     /\ procs'[p].pc = "done" /\ procs'[p].result = "ok"
                     /\ procs[p].id = id
                     /\ procs[p].state = OverallStateCancelled
                     /\ procs[p].seen \in OverallStates
                            \ {OverallStateCompleted, OverallStateFailed,
                               OverallStateCancelled})
          /\ \A p \in Procs :
                 /\ EventPersistStep(p) /\ procs'[p].result = "ok"
                 /\ procs[p].id = id /\ db'[id].exists
                 => PersistedState(db'[id]) # OverallStateCancelled]_vars

\* a job cancelled by a soft delete, then an event reporting its only benchmark
\* cancelled: the event is accepted and the recomputed overall state is pending
C10_Witness ==
    \E p \in Procs :
        /\ procs[p].op = "event" /\ procs[p].pc = "done" /\ procs[p].result = "ok"
        /\ procs[p].seen = OverallStateCancelled
        /\ EventOf(p).Status = StateCancelled
        /\ db[procs[p].id].exists
        /\ db[procs[p].id] = procs[p].wrote
        /\ Len(StoredStatuses(db[procs[p].id])) = Len(StoredConfig(db[procs[p].id]))
        /\ \A i \in DOMAIN StoredStatuses(db[procs[p].id]) :
               StoredStatuses(db[procs[p].id])[i].Status = StateCancelled
        /\ PersistedState(db[procs[p].id]) = OverallStatePending

\* the overall states a job is in while or after its benchmarks run
ProgressStates ==
    {OverallStateRunning, OverallStateCompleted, OverallStateFailed,
     OverallStatePartiallyFailed}

\* the row of job id gets a new overall state, or the job gets its row
EntersState(id, state) ==
    /\ db'[id].exists
    /\ PersistedState(db'[id]) = state
    /\ db[id].exists => PersistedState(db[id]) # state

\* slot p commits the UPDATE of an UpdateEvaluationJobStatus call
StatusWriteStep(p) ==
    /\ procs[p].op = "status" /\ procs[p].pc = "write"
    /\ procs'[p].pc = "done" /\ procs'[p].result = "ok"

\* slot p commits the UPDATE of an UpdateEvaluationJob call with the recomputed state
RecomputeStep(p) ==
    /\ EventPersistStep(p) /\ procs'[p].result = "ok"
    /\ PersistedState(db'[procs[p].id])
           = StateByCount(Len(StoredConfig(db'[procs[p].id])),
                          StoredStatuses(db'[procs[p].id]))

\* C11 as stated: a job's overall state becomes running, completed, failed or
\* partially_failed only by the commit of an UpdateEvaluationJob call that
\* recomputed it from the benchmark statuses.
C11_ProgressOnlyByRecomputation ==
    [][\A id \in JobIds : \A state \in ProgressStates :
          EntersState(id, state)
              => \E p \in Procs : procs[p].id = id /\ RecomputeStep(p)]_vars

\* C11 amended: a job's overall state becomes running, completed, failed or
\* partially_failed only by the recomputation of an UpdateEvaluationJob call or by
\* an UpdateEvaluationJobStatus call (SetStatus) whose requested target is that
\* state; Create and a status call with target cancelled (SoftDelete) never move
\* a job into one of these states.
C11_ProgressByRecomputationOrOverride ==
    [][\A id \in JobIds : \A state \in ProgressStates :
          EntersState(id, state)
              => \E p \in Procs :
                     /\ procs[p].id = id
                     /\ \/ RecomputeStep(p)
                        \/ StatusWriteStep(p) /\ procs[p].state = state]_vars

\* a pending job with no benchmark status, set to running by a status override
C11_Witness ==
    \E p \in Procs :
        /\ procs[p].op = "status" /\ procs[p].pc = "done" /\ procs[p].result = "ok"
        /\ procs[p].seen = OverallStatePending
        /\ procs[p].state = OverallStateRunning
        /\ db[procs[p].id] = procs[p].wrote
        /\ PersistedState(db[procs[p].id]) = OverallStateRunning
        /\ StoredStatuses(db[procs[p].id]) = <<>>

\* C12: right after the commit of a successful UpdateEvaluationJob call the
\* persisted overall state and message are GetOverallJobStatus of the persisted
\* job (its status.benchmarks against its config), the status column equals the
\* state in the blob, and, when no other writer committed on the job since the
\* call loaded it, the persisted status.benchmarks is the loaded list with the
\* event's benchmark status upserted.
C12_EventCommitConsistent ==
    [][\A p \in Procs :
          EventPersistStep(p) /\ procs'[p].result = "ok" /\ db'[procs[p].id].exists
          => LET row == db'[procs[p].id]
                 entity == UnmarshalEntity(row.entity)
                 got == getEvaluationJobTransactional(row, procs[p].id).job
                 before == getEvaluationJobTransactional(db[procs[p].id], procs[p].id).job
                 event == EventOf(p)
                 upserted == UpdateBenchmarkStatus(before, procs[p].runStatus,
                                 BenchmarkStatus(event.ID, event.ProviderID, event.Status,
                                                 event.ErrorMessage))
             IN /\ row.status = entity.Status.State
                /\ got.Status.State = GetOverallJobStatus(got).state
                /\ got.Status.Message = GetOverallJobStatus(got).message
                /\ got.Resource.Message = GetOverallJobStatus(got).message
                /\ db[procs[p].id] = procs[p].snapshot
                       => entity.Status.Benchmarks = upserted.Status.Benchmarks]_vars

\* a job left partially failed by its second event, the failure line in its message
C12_Witness ==
    \E p \in Procs :
        /\ procs[p].op = "event" /\ procs[p].pc = "done" /\ procs[p].result = "ok"
        /\ db[procs[p].id].exists
        /\ db[procs[p].id] = procs[p].wrote
        /\ db[procs[p].id].status = OverallStatePartiallyFailed
        /\ Len(StoredStatuses(db[procs[p].id])) = 2
        /\ Len(UnmarshalEntity(db[procs[p].id].entity).Status.Message.Message) > 1

\* slot p begins a new call
CallStart(p) == procs[p].pc \in {"idle", "done"} /\ procs'[p] # procs[p]

\* C13: with one call at a time, on a job with one benchmark that went pending,
\* running, cancelled (soft delete) and holds no result, a completed event for
\* that benchmark is accepted and the job shows completed in place of cancelled;
\* a soft delete that follows is refused with the terminal-state error and
\* writes nothing.  (A backend failure is the only other outcome.)
C13_EventReplacesCancelled ==
    [][\A p \in Procs :
          /\ (/\ EventPersistStep(p)
               /\ db[procs[p].id].exists
               /\ trail[procs[p].id]
                      = <<OverallStatePending, OverallStateRunning, OverallStateCancelled>>
               /\ Len(StoredConfig(db[procs[p].id])) = 1
               /\ StoredResults(db[procs[p].id]) = <<>>
               /\ EventOf(p).Status = StateCompleted
               /\ KeyOf(EventOf(p)) \in KeysOf(StoredConfig(db[procs[p].id]))
               => /\ procs[p].seen = OverallStateCancelled
                  /\ procs'[p].result \in {"ok", "DatabaseOperationFailed"}
                  /\ procs'[p].result = "ok"
                         => /\ PersistedState(db'[procs[p].id]) = OverallStateCompleted
                            /\ trail'[procs[p].id]
                                   = <<OverallStatePending, OverallStateRunning,
                                       OverallStateCancelled, OverallStateCompleted>>)
          /\ (/\ CallStart(p)
               /\ procs'[p].op = "status"
               /\ procs'[p].state = OverallStateCancelled
               /\ trail[procs'[p].id]
                      = <<OverallStatePending, OverallStateRunning,
                          OverallStateCancelled, OverallStateCompleted>>
               => /\ procs'[p].pc = "done"
                  /\ procs'[p].result \in {"JobCanNotBeCancelled", "DatabaseOperationFailed"}
                  /\ db' = db)]_vars

\* the scenario run to its end: the job went pending, running (by a running
\* event), cancelled, completed, and the last soft delete was refused
C13_Witness ==
    \E p \in Procs :
        /\ procs[p].op = "status" /\ procs[p].pc = "done"
        /\ procs[p].state = OverallStateCancelled
        /\ procs[p].result = "JobCanNotBeCancelled"
        /\ db[procs[p].id].exists
        /\ trail[procs[p].id]
               = <<OverallStatePending, OverallStateRunning,
                   OverallStateCancelled, OverallStateCompleted>>
        /\ Len(StoredStatuses(db[procs[p].id])) = 1
        /\ StoredStatuses(db[procs[p].id])[1].Status = StateCompleted
        /\ PersistedState(db[procs[p].id]) = OverallStateCompleted

\* the overall states in which a soft delete goes through
LiveStates == {OverallStatePending, OverallStateRunning, OverallStatePartiallyFailed}

\* C14: with one call at a time, an UpdateEvaluationJobStatus call with target
\* cancelled (SoftDelete) on a job that is pending, running or partially_failed
\* goes on to its write unless the backend fails, and its write sets the status
\* column and the state in the blob to cancelled and leaves config.benchmarks,
\* status.benchmarks and results.benchmarks as they were.
C14_SoftDeleteCancels ==
    [][\A p \in Procs :
          /\ (/\ CallStart(p)
               /\ procs'[p].op = "status" /\ procs'[p].state = OverallStateCancelled
               /\ db[procs'[p].id].exists
               /\ PersistedState(db[procs'[p].id]) \in LiveStates
               => \/ procs'[p].pc = "reload"
                  \/ procs'[p].result = "DatabaseOperationFailed")
          /\ (/\ procs[p].op = "status" /\ procs[p].state = OverallStateCancelled
               /\ procs[p].pc = "reload" /\ procs'[p] # procs[p]
               => \/ procs'[p].pc = "write"
                  \/ procs'[p].result = "DatabaseOperationFailed")
          /\ (/\ procs[p].op = "status" /\ procs[p].state = OverallStateCancelled
               /\ procs[p].pc = "write" /\ procs'[p] # procs[p]
               => \/ procs'[p].result = "DatabaseOperationFailed" /\ db' = db
                  \/ /\ procs'[p].result = "ok"
                     /\ procs[p].seen \in LiveStates
                     /\ db'[procs[p].id].exists
                     /\ db'[procs[p].id].status = OverallStateCancelled
                     /\ UnmarshalEntity(db'[procs[p].id].entity).Status.State
                            = OverallStateCancelled
                     /\ StoredConfig(db'[procs[p].id]) = StoredConfig(db[procs[p].id])
                     /\ StoredStatuses(db'[procs[p].id]) = StoredStatuses(db[procs[p].id])
                     /\ StoredResults(db'[procs[p].id])
                            = StoredResults(db[procs[p].id]))]_vars

\* a partially failed job cancelled by a soft delete, its two benchmark statuses
\* and its two results kept
C14_Witness ==
    \E p \in Procs :
        /\ procs[p].op = "status" /\ procs[p].pc = "done" /\ procs[p].result = "ok"
        /\ procs[p].state = OverallStateCancelled
        /\ procs[p].seen = OverallStatePartiallyFailed
        /\ db[procs[p].id].exists
        /\ db[procs[p].id] = procs[p].wrote
        /\ db[procs[p].id].status = OverallStateCancelled
        /\ Len(StoredStatuses(db[procs[p].id])) = 2
        /\ Len(StoredResults(db[procs[p].id])) = 2

\* C15: an UpdateEvaluationJobStatus call with target cancelled (SoftDelete) on a
\* job that is cancelled ends at its first step with success (or with the
\* backend's failure of the read) and writes nothing: every row stays as it was.
C15_SoftDeleteIdempotent ==
    [][\A p \in Procs :
          /\ CallStart(p)
          /\ procs'[p].op = "status" /\ procs'[p].state = OverallStateCancelled
          /\ db[procs'[p].id].exists
          /\ PersistedState(db[procs'[p].id]) = OverallStateCancelled
          => /\ procs'[p].pc = "done"
             /\ procs'[p].result \in {"ok", "DatabaseOperationFailed"}
             /\ procs'[p].wrote = NoRow
             /\ db' = db]_vars

\* a second soft delete of a cancelled job: success, nothing written, the row
\* still the one the first soft delete wrote
C15_Witness ==
    \E p \in Procs :
        /\ procs[p].op = "status" /\ procs[p].pc = "done" /\ procs[p].result = "ok"
        /\ procs[p].state = OverallStateCancelled
        /\ procs[p].seen = OverallStateCancelled
        /\ procs[p].wrote = NoRow
        /\ db[procs[p].id] = procs[p].snapshot
        /\ db[procs[p].id].exists
        /\ trail[procs[p].id] = <<OverallStatePending, OverallStateCancelled>>

\* the row of job id has been deleted at some point
WasDeleted(id) == \E i \in DOMAIN trail[id] : trail[id][i] = "deleted"

\* C16: the DELETE of a DeleteEvaluationJob call (HardDelete) that succeeds
\* leaves no row for the id, whatever the state of the job; a row once deleted
\* does not come back; a GetEvaluationJob or a DeleteEvaluationJob call on an id
\* that has no row ends at once with NotFound (or the backend's failure of the
\* read) and changes nothing.
C16_HardDelete ==
    [][/\ \A p \in Procs :
            /\ (/\ procs[p].op = "delete" /\ procs[p].pc = "delete"
                 /\ procs'[p].pc = "done" /\ procs'[p].result = "ok"
                 => ~db'[procs[p].id].exists)
            /\ (/\ CallStart(p)
                 /\ procs'[p].op \in {"get", "delete"}
                 /\ ~db[procs'[p].id].exists
                 => /\ procs'[p].pc = "done"
                    /\ procs'[p].result \in {"ResourceNotFound", "DatabaseOperationFailed"}
                    /\ db' = db)
       /\ \A id \in JobIds : WasDeleted(id) => ~db[id].exists /\ ~db'[id].exists]_vars

\* a partially failed job hard-deleted, and the Get that follows answered NotFound
C16_Witness ==
    \E p \in Procs :
        /\ procs[p].op = "get" /\ procs[p].pc = "done"
        /\ procs[p].result = "ResourceNotFound"
        /\ ~db[procs[p].id].exists
        /\ Len(trail[procs[p].id]) >= 3
        /\ trail[procs[p].id][Len(trail[procs[p].id])] = "deleted"
        /\ trail[procs[p].id][Len(trail[procs[p].id]) - 1] = OverallStatePartiallyFailed

\* C17: the row a successful CreateEvaluationJob inserts is read back by
\* getEvaluationJobTransactional as a job with the id given, the configuration
\* given (model, benchmarks, experiment, field for field) and the overall state
\* pending; no later write changes the configuration read back; GetEvaluationJob
\* returns what getEvaluationJobTransactional reads, so a Get of a job that no
\* write has touched since its Create shows that configuration and pending.
C17_CreateGetRoundTrip ==
    [][/\ \A p \in Procs :
            /\ (/\ CallStart(p)
                 /\ procs'[p].op = "create" /\ procs'[p].result = "ok"
                 => LET got == getEvaluationJobTransactional(
                                   queryRow(db', procs'[p].id), procs'[p].id)
                    IN /\ got.err = ""
                       /\ got.job.Resource.ID = procs'[p].id
                       /\ got.job.EvaluationJobConfig = procs'[p].job.EvaluationJobConfig
                       /\ got.job.EvaluationJobConfig \in Configs
                       /\ got.job.Status.State = OverallStatePending)
            /\ (/\ CallStart(p)
                 /\ procs'[p].op = "get" /\ procs'[p].result = "ok"
                 => /\ procs'[p].job
                           = getEvaluationJobTransactional(db[procs'[p].id],
                                                           procs'[p].id).job
                    /\ trail[procs'[p].id] = <<OverallStatePending>>
                           => procs'[p].job.Status.State = OverallStatePending)
       /\ \A id \in JobIds :
            db[id].exists /\ db'[id].exists
                => getEvaluationJobTransactional(db'[id], id).job.EvaluationJobConfig
                       = getEvaluationJobTransactional(db[id], id).job.EvaluationJobConfig]_vars

\* a Get right after the Create of a job with two benchmarks and an experiment
\* tag: pending, and the configuration with both benchmarks and the tag
C17_Witness ==
    \E p \in Procs :
        /\ procs[p].op = "get" /\ procs[p].pc = "done" /\ procs[p].result = "ok"
        /\ trail[procs[p].id] = <<OverallStatePending>>
        /\ procs[p].job.Status.State = OverallStatePending
        /\ procs[p].job.EvaluationJobConfig \in Configs
        /\ Len(procs[p].job.EvaluationJobConfig.Benchmarks) = 2
        /\ ~procs[p].job.EvaluationJobConfig.Experiment.isNil
        /\ Len(procs[p].job.EvaluationJobConfig.Experiment.Tags) = 1

\* C37: in every row, a (benchmark id, provider id) with an entry in
\* results.benchmarks has an entry in status.benchmarks whose state is completed,
\* failed or cancelled; so no event puts such a benchmark back to running or
\* pending.
C37_ResultHasTerminalStatus ==
    \A id \in JobIds :
        db[id].exists =>
            \A key \in KeysOf(StoredResults(db[id])) :
                \E status \in EntriesOf(StoredStatuses(db[id]), key) :
                    status.Status \in TerminalBenchmarkStates

\* every configured benchmark of the row has a recorded status in one of `states`
AllRecordedIn(row, states) ==
    \A i \in DOMAIN StoredConfig(row) :
        \E status \in EntriesOf(StoredStatuses(row), KeyOf(StoredConfig(row)[i])) :
            status.Status \in states

FinalOverallStates ==
    {OverallStateCompleted, OverallStateFailed, OverallStatePartiallyFailed}

StatusReturnStep(p) ==
    /\ procs'[p] # procs[p]
    /\ procs'[p].op = "status" /\ procs'[p].pc = "done" /\ procs'[p].result = "ok"

\* C39: with one call at a time, when UpdateEvaluationJobStatus (SetStatus)
\* returns success, the job's persisted overall state (status column and blob)
\* is the requested target state.
C39_SuccessMeansTargetState ==
    [][\A p \in Procs :
          StatusReturnStep(p)
          => /\ db'[procs'[p].id].exists
             /\ db'[procs'[p].id].status = procs'[p].state
             /\ PersistedState(db'[procs'[p].id]) = procs'[p].state]_vars

\* a completed or failed event of benchmark `key` has been committed on the row:
\* a result is recorded only by a committed completed, failed or cancelled event
\* and only once per key; it carries the metrics of a completed event, or the
\* recorded status is still the failed one of the event
HasDeliveredTerminal(row, key) ==
    \E result \in EntriesOf(StoredResults(row), key) :
        \/ result.Metrics = MetricsOf(StateCompleted)
        \/ \E status \in EntriesOf(StoredStatuses(row), key) : status.Status = StateFailed

\* C40: with one call at a time, the commit of a completed or failed event after
\* which every configured benchmark of the job has had its one completed or
\* failed event committed (the event of the last benchmark) leaves the job in
\* overall state completed, failed or partially_failed; so a job whose
\* benchmarks all deliver such an event reaches one of these states, and does so
\* at that commit.
C40_LastTerminalEventIsFinal ==
    [][\A p \in Procs :
          /\ EventPersistStep(p) /\ procs'[p].result = "ok" /\ db'[procs[p].id].exists
          /\ EventOf(p).Status \in {StateCompleted, StateFailed}
          /\ \A key \in KeysOf(StoredConfig(db'[procs[p].id])) :
                 HasDeliveredTerminal(db'[procs[p].id], key)
          => PersistedState(db'[procs[p].id]) \in FinalOverallStates]_vars

-----------------------------------------------------------------------------
(* Properties of the aggregator *)

AggTotal == Len(aggJob.EvaluationJobConfig.Benchmarks)
AggList == aggJob.Status.Benchmarks

\* C4: GetOverallJobStatus returns completed if the number of completed
\* benchmarks equals the number configured; otherwise failed if the number of
\* failed ones equals it; otherwise partially_failed if completed plus failed
\* equals it; otherwise running if a benchmark is running; otherwise pending.
C4_Cascade == aggOut.done => aggOut.state = StateByCount(AggTotal, AggList)

\* one completed and one failed out of two, with a failure line in the message
C4_Witness ==
    /\ aggOut.done
    /\ AggTotal = 2
    /\ aggOut.state = OverallStatePartiallyFailed
    /\ Len(aggOut.message.Message) > 1

\* the lines of a failure message: the tokens after the heading, cut at each "\n"
RECURSIVE SplitLines(_, _, _, _)
SplitLines(text, i, line, lines) ==
    IF i > Len(text) THEN lines
    ELSE IF text[i] = "\n" THEN SplitLines(text, i + 1, <<>>, Append(lines, line))
    ELSE SplitLines(text, i + 1, Append(line, text[i]), lines)

FailureLines(text) == SplitLines(text, 2, <<>>, <<>>)

LineBag(lines) ==
    [l \in {lines[i] : i \in DOMAIN lines} |->
        Cardinality({i \in DOMAIN lines : lines[i] = l})]

Permuted(list, perm) == [i \in DOMAIN list |-> list[perm[i]]]

\* C5: every permutation of the recorded list gives the same overall state and a
\* message with the same heading, the same code and the same failure lines.
C5_OrderIndependent ==
    aggOut.done =>
        \A perm \in Permutations(DOMAIN AggList) :
            LET other == GetOverallJobStatus(AggJobOf(AggTotal, Permuted(AggList, perm)))
            IN /\ other.state = aggOut.state
               /\ other.message.MessageCode = aggOut.message.MessageCode
               /\ other.message.Message[1] = aggOut.message.Message[1]
               /\ LineBag(FailureLines(other.message.Message))
                      = LineBag(FailureLines(aggOut.message.Message))

\* a failed job whose message text changes with the order of the list
C5_Witness ==
    /\ aggOut.done
    /\ aggOut.state = OverallStateFailed
    /\ \E perm \in Permutations(DOMAIN AggList) :
           GetOverallJobStatus(AggJobOf(AggTotal, Permuted(AggList, perm))).message.Message
               # aggOut.message.Message

-----------------------------------------------------------------------------
(* Properties of the reads *)

\* the state the blob of a row holds
BlobState(row) == UnmarshalEntity(row.entity).Status.State

\* C18: a Get that succeeds on a row whose status column holds a valid overall
\* state returns that state as the job's overall state, whatever the state in
\* the blob of the row
C18_ColumnStateReturned ==
    \A p \in Procs :
        (procs[p].op = "get" /\ procs[p].pc = "done" /\ procs[p].result = "ok"
         /\ procs[p].snapshot.status \in OverallStates)
            => procs[p].job.Status.State = procs[p].snapshot.status

\* a Get returned the state of the column of a row whose blob holds another state
C18_Witness ==
    \E p \in Procs :
        /\ procs[p].op = "get" /\ procs[p].pc = "done" /\ procs[p].result = "ok"
        /\ procs[p].snapshot.status = OverallStateCompleted
        /\ BlobState(procs[p].snapshot) = OverallStatePending
        /\ procs[p].job.Status.State = OverallStateCompleted

\* the row gives a resource: its entity unmarshals and holds a configuration
Deserializes(row) ==
    /\ ~JSONUnmarshalFails(row.entity)
    /\ constructEvaluationResource(row.status, NilMessageInfo, row.id,
                                   UnmarshalEntity(row.entity)).err = ""

\* the ids of the jobs of a list of resources
IdsOf(items) == [i \in 1..Len(items) |-> items[i].Resource.ID]

\* C19: a List whose statements the database answers succeeds whatever rows its
\* page holds: the items are the rows of the page that deserialize, the total
\* is the count less one for each row of the page that does not, and one error
\* is returned for each such row
C19_ListToleratesCorruptRows ==
    \A p \in Procs :
        (procs[p].op = "list" /\ procs[p].pc = "done" /\ procs[p].result # "QueryFailed")
            => LET args == procs[p].list
                   rows == listEntities(db, args.limit, args.offset, args.statusFilter)
                   valid == SelectSeq(rows, Deserializes)
                   corrupt == Len(rows) - Len(valid)
               IN /\ procs[p].result = "ok"
                  /\ IdsOf(args.items) = [i \in 1..Len(valid) |-> valid[i].id]
                  /\ args.totalCount = countEntities(db, args.statusFilter) - corrupt
                  /\ Len(args.errors) = corrupt

\* the number of rows a page has in a table of `stored` rows under the filter
PageSize(stored, limit, offset) ==
    LET rest == IF stored > offset THEN stored - offset ELSE 0
    IN IF limit < rest THEN limit ELSE rest

\* C20: the total and the page a List returns come from one snapshot of the
\* table, also when other requests commit during the call: the page holds as
\* many rows as a page of its limit and offset has in a table of as many rows
\* as the count found
C20_ListOneSnapshot ==
    \A p \in Procs :
        (procs[p].op = "list" /\ procs[p].pc = "done" /\ procs[p].result = "ok")
            => LET args == procs[p].list
                   stored == args.totalCount + Len(args.errors)
               IN Len(args.items) + Len(args.errors)
                      = PageSize(stored, args.limit, args.offset)

\* the List call of slot p returned a page
Listed(p) == procs[p].op = "list" /\ procs[p].pc = "done" /\ procs[p].result = "ok"

\* the ids of the jobs of a list of resources, as a set
IdSetOf(items) == {items[i].Resource.ID : i \in 1..Len(items)}

\* C21: with N jobs under the filter and no writer, a List returns a total of N
\* and min(limit, max(0, N - offset)) items, each a different job under the
\* filter; two pages of the same filter that do not overlap share no job, and
\* the first two pages of a limit that reaches N in two pages hold every job
\* under the filter
C21_Pagination ==
    /\ \A p \in Procs :
          Listed(p) =>
              LET args == procs[p].list
                  matching == MatchingIds(db, args.statusFilter)
              IN /\ args.totalCount = Cardinality(matching)
                 /\ Len(args.items) = PageSize(Cardinality(matching), args.limit, args.offset)
                 /\ Cardinality(IdSetOf(args.items)) = Len(args.items)
                 /\ IdSetOf(args.items) \subseteq matching
    /\ \A p, q \in Procs :
          (Listed(p) /\ Listed(q)
           /\ procs[p].list.statusFilter = procs[q].list.statusFilter
           /\ procs[q].list.offset >= procs[p].list.offset + procs[p].list.limit)
              => /\ IdSetOf(procs[p].list.items) \cap IdSetOf(procs[q].list.items) = {}
                 /\ (/\ procs[p].list.offset = 0
                      /\ procs[q].list.offset = procs[p].list.limit
                      /\ procs[q].list.limit = procs[p].list.limit
                      /\ procs[p].list.totalCount <= 2 * procs[p].list.limit)
                        => IdSetOf(procs[p].list.items) \cup IdSetOf(procs[q].list.items)
                               = MatchingIds(db, procs[p].list.statusFilter)

\* limit 2 over three jobs: two items and a total of three, then the third job
\* on the page of offset 2
C21_Witness ==
    \E p, q \in Procs :
        /\ Listed(p) /\ Listed(q)
        /\ Cardinality(MatchingIds(db, "")) = 3
        /\ procs[p].list.statusFilter = "" /\ procs[q].list.statusFilter = ""
        /\ procs[p].list.limit = 2 /\ procs[p].list.offset = 0
        /\ procs[q].list.limit = 2 /\ procs[q].list.offset = 2
        /\ Len(procs[p].list.items) = 2 /\ procs[p].list.totalCount = 3
        /\ Len(procs[q].list.items) = 1

-----------------------------------------------------------------------------
(* Properties of the cluster dispatcher *)

\* the positions of the calls of kind `op` in a list of cluster calls
CallsOf(calls, op) == {i \in DOMAIN calls : calls[i].op = op}

\* the RunEvaluationJob call has returned
RunReturned == k8s.run.pc = "done"

\* C22: RunEvaluationJob submits the Job only after a CreateConfigMap of its
\* ConfigMap that succeeded, and a run that has returned after a CreateJob that
\* failed has called DeleteConfigMap on that same ConfigMap after it
C22_ConfigMapFirstThenCompensate ==
    LET calls == k8s.run.calls
    IN /\ \A i \in CallsOf(calls, "CreateJob") :
             \E j \in CallsOf(calls, "CreateConfigMap") :
                 j < i /\ calls[j].err = "" /\ calls[j].resource = k8s.run.configMap
       /\ RunReturned =>
             \A i \in CallsOf(calls, "CreateJob") :
                 calls[i].err # "" =>
                     \E k \in CallsOf(calls, "DeleteConfigMap") :
                         /\ k > i
                         /\ \E j \in CallsOf(calls, "CreateConfigMap") :
                                calls[j].resource = calls[k].resource

\* a run created its ConfigMap, failed to create its Job and called
\* DeleteConfigMap on the ConfigMap
C22_Witness ==
    /\ RunReturned
    /\ Len(k8s.run.calls) = 3
    /\ k8s.run.calls[1] = ApiCall("CreateConfigMap", k8s.run.configMap, "")
    /\ k8s.run.calls[2].op = "CreateJob" /\ k8s.run.calls[2].err # ""
    /\ k8s.run.calls[3].op = "DeleteConfigMap"
    /\ k8s.run.calls[3].resource = k8s.run.configMap

\* the run failed to create its Job and its cleanup call ended with cleanupErr
CleanedUpWith(cleanupErr) ==
    /\ RunReturned
    /\ Len(k8s.run.calls) = 3
    /\ k8s.run.calls[2].op = "CreateJob" /\ k8s.run.calls[2].err # ""
    /\ k8s.run.calls[3] = ApiCall("DeleteConfigMap", k8s.run.configMap, cleanupErr)

CreateConfigMapFails ==
    /\ k8s.run.pc = "createConfigMap"
    /\ k8s'.run # k8s.run
    /\ k8s'.run.calls # <<>>
    /\ k8s'.run.calls[Len(k8s'.run.calls)].err # ""

\* C24: a CreateConfigMap call that fails leaves the cluster as it was and ends
\* the run, which returns the error of the call; the run that has returned
\* after it made no CreateJob call and no DeleteConfigMap call
C24_ConfigMapFailureStops ==
    /\ [][CreateConfigMapFails =>
             /\ cluster' = cluster
             /\ k8s'.run.pc = "done"
             /\ k8s'.run.result = k8s'.run.calls[1].err]_vars
    /\ [](RunReturned /\ k8s.run.calls # <<>> /\ k8s.run.calls[1].err # ""
             => /\ Len(k8s.run.calls) = 1
                /\ k8s.run.calls[1].op = "CreateConfigMap"
                /\ k8s.run.result = k8s.run.calls[1].err)

\* a run found a ConfigMap of its name, returned AlreadyExists after that one
\* call, and the ConfigMap is still in the cluster
C24_Witness ==
    /\ RunReturned
    /\ k8s.run.calls = <<ApiCall("CreateConfigMap", k8s.run.configMap, "AlreadyExists")>>
    /\ k8s.run.result = "AlreadyExists"
    /\ k8s.run.configMap \in cluster.configMaps

ConfigurationErrors ==
    {"evaluation is required", "no provider configs loaded",
     "evaluation benchmark id is empty", "no provider found for benchmark",
     "provider missing runtime configuration", "runtime adapter image is required",
     "EVALHUB_SERVICE_URL is required", "retry attempts cannot be negative"}

\* the number of calls of kind `op` that succeeded
Succeeded(calls, op) == Cardinality({i \in CallsOf(calls, op) : calls[i].err = ""})

\* C26: once a RunEvaluationJob on a job of N benchmarks has returned, with no
\* configuration error and no failed cluster call, it has created N Jobs and N
\* ConfigMaps
C26_OneJobPerBenchmark ==
    (/\ RunReturned
     /\ ~k8s.run.evaluation.isNil
     /\ Len(k8s.run.evaluation.Benchmarks) >= 1
     /\ k8s.run.result \notin ConfigurationErrors
     /\ \A i \in DOMAIN k8s.run.calls : k8s.run.calls[i].err = "")
        => /\ Succeeded(k8s.run.calls, "CreateJob") = Len(k8s.run.evaluation.Benchmarks)
           /\ Succeeded(k8s.run.calls, "CreateConfigMap")
                  = Len(k8s.run.evaluation.Benchmarks)

\* C27: a RunEvaluationJob one of whose CreateConfigMap or CreateJob calls
\* failed returns nil
C27_NilOnCreateFailure ==
    (/\ RunReturned
     /\ \E i \in DOMAIN k8s.run.calls :
            /\ k8s.run.calls[i].op \in {"CreateConfigMap", "CreateJob"}
            /\ k8s.run.calls[i].err # "")
        => k8s.run.result = ""

\* the DeleteEvaluationJobResources call has returned
DeleteReturned == k8s.del.pc = "done"

\* the Job and the ConfigMap of benchmark i of the job of the delete call
DeletedJob(i) ==
    Resource(k8s.del.namespace,
             jobName(k8s.del.evaluation.ID, k8s.del.evaluation.Benchmarks[i].ID))
DeletedConfigMap(i) ==
    Resource(k8s.del.namespace,
             configMapName(k8s.del.evaluation.ID, k8s.del.evaluation.Benchmarks[i].ID))

\* every call of the delete call succeeded
AllDeleted == \A i \in DOMAIN k8s.del.calls : k8s.del.calls[i].err = ""

\* C28: a DeleteEvaluationJobResources that has returned has called DeleteJob
\* on the Job and DeleteConfigMap on the ConfigMap of every benchmark of the
\* job; when every call succeeded it returns no error, and, no RunEvaluationJob
\* having run beside it, none of those Jobs and ConfigMaps is in the cluster
C28_DeleteRemovesAll ==
    DeleteReturned =>
        /\ \A i \in DOMAIN k8s.del.evaluation.Benchmarks :
              /\ \E c \in CallsOf(k8s.del.calls, "DeleteJob") :
                     k8s.del.calls[c].resource = DeletedJob(i)
              /\ \E c \in CallsOf(k8s.del.calls, "DeleteConfigMap") :
                     k8s.del.calls[c].resource = DeletedConfigMap(i)
        /\ AllDeleted =>
              /\ k8s.del.errs = <<>>
              /\ k8s.run.pc = "idle" =>
                     \A i \in DOMAIN k8s.del.evaluation.Benchmarks :
                         /\ DeletedJob(i) \notin cluster.jobs
                         /\ DeletedConfigMap(i) \notin cluster.configMaps

\* a delete call on a job of two benchmarks made four calls that all succeeded
C28_Witness ==
    /\ DeleteReturned
    /\ k8s.run.pc = "idle"
    /\ Len(k8s.del.evaluation.Benchmarks) = 2
    /\ Len(k8s.del.calls) = 4
    /\ AllDeleted
    /\ k8s.del.errs = <<>>
    /\ cluster = NoCluster

\* the errors of the calls that failed, in the order of the calls
RECURSIVE FailuresOf(_)
FailuresOf(calls) ==
    IF calls = <<>> THEN <<>>
    ELSE (IF Head(calls).err # "" THEN <<Head(calls).err>> ELSE <<>>)
             \o FailuresOf(Tail(calls))

\* C29: a DeleteEvaluationJobResources that has returned has made two calls for
\* every benchmark of the job, the DeleteJob and then the DeleteConfigMap,
\* whatever calls failed before, and the error it returns joins the error of
\* every call that failed
C29_DeleteJoinsAllErrors ==
    DeleteReturned =>
        /\ Len(k8s.del.calls) = 2 * Len(k8s.del.evaluation.Benchmarks)
        /\ \A i \in DOMAIN k8s.del.evaluation.Benchmarks :
              /\ k8s.del.calls[2 * i - 1].op = "DeleteJob"
              /\ k8s.del.calls[2 * i - 1].resource = DeletedJob(i)
              /\ k8s.del.calls[2 * i].op = "DeleteConfigMap"
              /\ k8s.del.calls[2 * i].resource = DeletedConfigMap(i)
        /\ k8s.del.errs = FailuresOf(k8s.del.calls)

\* a delete call on a job of two benchmarks whose first DeleteJob and first
\* DeleteConfigMap both failed went on to the second benchmark and returned
\* both errors
C29_Witness ==
    /\ DeleteReturned
    /\ Len(k8s.del.evaluation.Benchmarks) = 2
    /\ Len(k8s.del.calls) = 4
    /\ k8s.del.calls[1].err = "InternalError"
    /\ k8s.del.calls[2].err = "InternalError"
    /\ k8s.del.calls[3].err = "" /\ k8s.del.calls[4].err = ""
    /\ k8s.del.errs = <<"InternalError", "InternalError">>

-----------------------------------------------------------------------------
(* Properties of the store and the dispatcher side by side *)

\* the step belongs to a call of the job store
StoreStep == procs' # procs \/ db' # db

\* the cluster resources named after job `id`
ResourcesOf(id) ==
    {r \in cluster.configMaps \cup cluster.jobs : r.Name[2] = id}

\* C30: a step of a soft delete, of a hard delete or of any other call of the
\* job store leaves the cluster and the dispatcher's calls as they are, so the
\* Jobs and ConfigMaps of a job change only by a call of the dispatcher
C30_StoreDeletesKeepCluster ==
    [][/\ StoreStep => cluster' = cluster /\ k8s' = k8s
       /\ cluster' # cluster => k8s' # k8s]_vars

\* job 1 was hard deleted from the store while its ConfigMap and its Job,
\* created by the dispatcher, are still in the cluster
C30_Witness ==
    /\ procs[1].op = "delete" /\ procs[1].pc = "done" /\ procs[1].result = "ok"
    /\ procs[1].id = 1 /\ ~db[1].exists
    /\ RunReturned /\ k8s.run.result = "" /\ k8s.run.evaluation.ID = 1
    /\ k8s.run.configMap \in ResourcesOf(1)
    /\ k8s.run.job \in ResourcesOf(1)

\* C31: once a job has been hard deleted through the service, the cluster
\* eventually holds no Job and no ConfigMap named after it; and a step of a soft
\* delete (a status call with target cancelled) leaves the cluster as it is.
C31_HardDeleteRemovesResources ==
    /\ \A id \in JobIds : (WasDeleted(id) /\ ResourcesOf(id) # {}) ~> (ResourcesOf(id) = {})
    /\ [][\A p \in Procs :
             /\ procs'[p] # procs[p]
             /\ procs'[p].op = "status" /\ procs'[p].state = OverallStateCancelled
             => cluster' = cluster]_vars

-----------------------------------------------------------------------------
(* Properties of the name builder *)

\* the characters a name may be made of
NameChars == LowerLetters \cup Digits \cup {"-"}

\* C32: every name built, for whatever job id, provider id and benchmark id, is
\* at most 63 characters long, is made of lower-case letters, digits and hyphens
\* only, and neither starts nor ends with a hyphen.
C32_NameWellFormed ==
    \A b \in k8s.names.built :
        /\ Len(b.name) >= 1
        /\ Len(b.name) <= 63
        /\ \A i \in DOMAIN b.name : b.name[i] \in NameChars
        /\ b.name[1] # "-"
        /\ b.name[Len(b.name)] # "-"

\* a ConfigMap name of exactly 63 characters, built from a provider id longer
\* than a name may be that ends in a character a name may not hold, and from a
\* benchmark id with an upper-case letter
C32_Witness ==
    \E b \in k8s.names.built :
        /\ Len(b.providerID) > 63
        /\ b.providerID[Len(b.providerID)] = "_"
        /\ k8s.names.benchmarkID = <<"A", "_">>
        /\ k8s.names.suffix = specSuffix
        /\ Len(b.name) = 63

C34_NoCallWithoutJobConfig ==
    /\ k8s.run.pc \in {"createConfigMap", "createJob", "cleanup"} \/ k8s.run.calls # <<>>
           => /\ ~k8s.run.jobConfig.isNil
              /\ k8s.run.jobConfig.evalHubServiceURL # ""
              /\ k8s.run.jobConfig.adapterImage # ""
              /\ k8s.run.jobConfig.retryAttempts >= 0
              /\ k8s.run.evaluation.RetryAttempts.isNil
                     \/ k8s.run.evaluation.RetryAttempts.value
                            = k8s.run.jobConfig.retryAttempts
    /\ k8s.run.result \in {"EVALHUB_SERVICE_URL is required",
                            "runtime adapter image is required",
                            "retry attempts cannot be negative"}
           => /\ k8s.run.pc = "done"
              /\ k8s.run.calls = <<>>
              /\ k8s.run.jobConfig.isNil
              /\ k8s.run.configMap = NoResource /\ k8s.run.job = NoResource

\* a job of one known benchmark with -1 retry attempts, refused with no call made
C34_Witness ==
    /\ RunReturned
    /\ k8s.run.result = "retry attempts cannot be negative"
    /\ k8s.run.evaluation.RetryAttempts = IntPtr(-1)
    /\ Len(k8s.run.evaluation.Benchmarks) = 1
    /\ k8s.run.calls = <<>>

\* C36: the provider a RunEvaluationJob resolved, whose id and adapter image
\* are in the job configuration it built, is the provider the job's benchmark
\* is configured with.
C36_ResolvedProviderIsConfigured ==
    ~k8s.run.jobConfig.isNil
        => k8s.run.jobConfig.providerID = k8s.run.evaluation.Benchmarks[1].ProviderID

-----------------------------------------------------------------------------
(* Properties of RunEvaluationJob calls side by side *)

\* the ConfigMap the Job `job` mounts
ConfigMapOf(job) == Resource(job.Namespace, Append(job.Name, "spec"))

\* C35: whatever RunEvaluationJob calls ran, one after the other or interleaved,
\* every Job in the cluster has its ConfigMap in the cluster.
C35_JobHasConfigMap ==
    \A job \in cluster.jobs : ConfigMapOf(job) \in cluster.configMaps

\* two calls for the same job: one created the ConfigMap, could not create the
\* Job and deleted the ConfigMap again; the other created both, and they are there
C35_Witness ==
    /\ k8s.run.pc = "done" /\ k8s.run2.pc = "done"
    /\ k8s.run.job = k8s.run2.job
    /\ \E i \in DOMAIN k8s.run.calls :
          k8s.run.calls[i] = ApiCall("DeleteConfigMap", k8s.run.configMap, "")
    /\ k8s.run2.result = "" /\ Len(k8s.run2.calls) = 2
    /\ k8s.run2.job \in cluster.jobs
    /\ ConfigMapOf(k8s.run2.job) \in cluster.configMaps

====
